---- MODULE Spec2Model ----
(***************************************************************************)
(* EigenTrust: the Simulation aggregate (domain/simulation.py), the        *)
(* power-iteration engine (algorithms/eigentrust.py), the convergence      *)
(* checker, the column normalizer and the TrustScores value object.        *)
(*                                                                         *)
(* Floating-point numbers are modelled as exact rationals <<n, d>> in      *)
(* lowest terms with d > 0; the IEEE special values a division by zero     *)
(* produces are <<0, 0>> (NaN), <<1, 0>> (+inf) and <<-1, 0>> (-inf).      *)
(* Optional values are <<>> (None) or <<x>>.                               *)
(***************************************************************************)
EXTENDS Integers, Sequences, FiniteSets, TLC

VARIABLES
    state,                \* Simulation.state
    peers,                \* Simulation.peers: sequence of Peer records
    interactions,         \* Simulation.interactions: sequence of Interaction records
    convergence_history,  \* Simulation.convergence_history
    pc,                   \* position of the running call
    call,                 \* arguments of the call in progress
    eng,                  \* locals of the engine call in progress
    reply                 \* what the last call gave its caller

vars == <<state, peers, interactions, convergence_history, pc, call, eng, reply>>

simVars == <<state, peers, interactions, convergence_history>>

-----------------------------------------------------------------------------
(* Bounds of the model *)

MaxPeers == 3

MaxLog == 1

MaxSimCount == 1

MaxIterations == 2

MaxSteps == 3

-----------------------------------------------------------------------------
(* Numbers *)

Abs(x) == IF x < 0 THEN -x ELSE x

Sign(x) == IF x < 0 THEN -1 ELSE IF x > 0 THEN 1 ELSE 0

RECURSIVE GCD(_, _)
GCD(a, b) == IF b = 0 THEN a ELSE GCD(b, a % b)

NaN == <<0, 0>>

Rat(n, d) ==
    IF d = 0 THEN <<Sign(n), 0>>
    ELSE LET g == GCD(Abs(n), Abs(d))
         IN  <<Sign(n) * Sign(d) * (Abs(n) \div g), Abs(d) \div g>>

Zero == Rat(0, 1)

One == Rat(1, 1)

IsNaN(a) == a = NaN

IsFinite(a) == a[2] # 0

RNeg(a) == <<-a[1], a[2]>>

RAbs(a) == <<Abs(a[1]), a[2]>>

RAdd(a, b) ==
    IF IsFinite(a) /\ IsFinite(b)
    THEN LET g == GCD(a[2], b[2])
         IN  Rat(a[1] * (b[2] \div g) + b[1] * (a[2] \div g), (a[2] \div g) * b[2])
    ELSE IF IsNaN(a) \/ IsNaN(b) THEN NaN
    ELSE IF IsFinite(a) THEN b
    ELSE IF IsFinite(b) THEN a
    ELSE IF a = b THEN a ELSE NaN

RSub(a, b) == RAdd(a, RNeg(b))

RMul(a, b) ==
    IF IsFinite(a) /\ IsFinite(b)
    THEN LET g1 == GCD(Abs(a[1]), b[2])
             g2 == GCD(Abs(b[1]), a[2])
         IN  Rat((a[1] \div g1) * (b[1] \div g2), (a[2] \div g2) * (b[2] \div g1))
    ELSE IF IsNaN(a) \/ IsNaN(b) \/ a = Zero \/ b = Zero THEN NaN
    ELSE <<Sign(a[1]) * Sign(b[1]), 0>>

RDiv(a, b) ==
    IF IsNaN(a) \/ IsNaN(b) THEN NaN
    ELSE IF ~IsFinite(b) THEN (IF IsFinite(a) THEN Zero ELSE NaN)
    ELSE IF b = Zero THEN <<Sign(a[1]), 0>>
    ELSE IF ~IsFinite(a) THEN <<Sign(a[1]) * Sign(b[1]), 0>>
    ELSE RMul(a, <<Sign(b[1]) * b[2], Abs(b[1])>>)

\* an/ad < bn/bd for ad, bd > 0, by comparing integer parts and then the
\* reciprocals of the fractional parts (no product is formed).
RECURSIVE FracLess(_, _, _, _)
FracLess(an, ad, bn, bd) ==
    LET qa == an \div ad
        qb == bn \div bd
        ra == an % ad
        rb == bn % bd
    IN  IF qa # qb THEN qa < qb
        ELSE IF rb = 0 THEN FALSE
        ELSE IF ra = 0 THEN TRUE
        ELSE FracLess(bd, rb, ad, ra)

\* a < b as IEEE compares: every comparison with NaN is false
RLess(a, b) ==
    IF IsNaN(a) \/ IsNaN(b) THEN FALSE
    ELSE IF IsFinite(a) /\ IsFinite(b) THEN FracLess(a[1], a[2], b[1], b[2])
    ELSE IF ~IsFinite(a) THEN a[1] < 0 /\ b # a
    ELSE b[1] > 0

RLeq(a, b) == ~IsNaN(a) /\ ~IsNaN(b) /\ (a = b \/ RLess(a, b))

RMax(a, b) == IF RLess(a, b) THEN b ELSE a

RMin(a, b) == IF RLess(b, a) THEN b ELSE a

NoneVal == <<>>

Some(x) == <<x>>

-----------------------------------------------------------------------------
(* Vectors and matrices: sequences, and sequences of rows *)

\* the same sequence, or the same mapping, with every element evaluated
Tuple(v) == <<>> \o v

Dict(f) == f @@ <<>>

RECURSIVE VSum(_)
VSum(v) == IF v = <<>> THEN Zero ELSE RAdd(VSum(SubSeq(v, 1, Len(v) - 1)), v[Len(v)])

VScale(c, v) == Tuple([i \in 1..Len(v) |-> RMul(c, v[i])])

VDivide(v, s) == Tuple([i \in 1..Len(v) |-> RDiv(v[i], s)])

VAdd(u, v) == Tuple([i \in 1..Len(u) |-> RAdd(u[i], v[i])])

VSub(u, v) == Tuple([i \in 1..Len(u) |-> RSub(u[i], v[i])])

Column(m, j) == Tuple([i \in 1..Len(m) |-> m[i][j]])

\* torch.matmul(trust_matrix.T, t): entry j is the sum over i of m[i][j] * t[i]
MatTVec(m, t) ==
    Tuple([j \in 1..Len(m) |-> VSum(Tuple([i \in 1..Len(m) |-> RMul(m[i][j], t[i])]))])

\* torch.allclose(x, y, atol=1e-6) with the default rtol=1e-5:
\* |x - y| <= atol + rtol * |y|
AllClose(x, y) ==
    RLeq(RAbs(RSub(x, y)), RAdd(Rat(1, 1000000), RMul(Rat(1, 100000), RAbs(y))))

-----------------------------------------------------------------------------
(* algorithms/convergence.py *)

\* A norm value: the real number val^(1/root).  The L1 norm is a rational
\* (root 1); the L2 norm is the square root of a rational (root 2).
Float(x) == [val |-> x, root |-> 1]

\* d < epsilon
DeltaLess(d, epsilon) ==
    IF d.root = 1 THEN RLess(d.val, epsilon)
    ELSE RLess(Zero, epsilon) /\ RLess(d.val, RMul(epsilon, epsilon))

\* d >= epsilon
DeltaGeq(d, epsilon) ==
    IF d.root = 1 THEN RLeq(epsilon, d.val)
    ELSE ~IsNaN(d.val) /\ ~IsNaN(epsilon)
         /\ (RLeq(epsilon, Zero) \/ RLeq(RMul(epsilon, epsilon), d.val))

\* torch.norm(diff, p=1) and torch.norm(diff, p=2)
Norm(diff, norm_type) ==
    IF norm_type = "l1"
    THEN [val |-> VSum(Tuple([i \in 1..Len(diff) |-> RAbs(diff[i])])), root |-> 1]
    ELSE [val |-> VSum(Tuple([i \in 1..Len(diff) |-> RMul(diff[i], diff[i])])), root |-> 2]

NoStatus == [raised |-> "none", converged |-> FALSE, delta |-> Float(Zero)]

IsConvergedInclusive(delta, epsilon) ==
    \/ DeltaLess(delta, epsilon)
    \/ delta.val = (IF delta.root = 1 THEN epsilon ELSE RMul(epsilon, epsilon))

\* converged = delta < epsilon
IsConverged(delta, epsilon) == DeltaLess(delta, epsilon)

check_convergence(t_old, t_new, epsilon, norm_type) ==
    IF Len(t_old) # Len(t_new) \/ norm_type \notin {"l1", "l2"}
    THEN [NoStatus EXCEPT !.raised = "ValueError"]
    ELSE LET delta == Norm(VSub(t_new, t_old), norm_type)
         IN  [raised |-> "none", converged |-> IsConverged(delta, epsilon), delta |-> delta]

-----------------------------------------------------------------------------
(* algorithms/normalization.py *)

HasNegative(m) == \E i \in 1..Len(m) : \E j \in 1..Len(m[i]) : RLess(m[i][j], Zero)

\* matrix.shape[1]
NumCols(m) == IF m = <<>> THEN 0 ELSE Len(m[1])

ColumnSumsUnguarded(m) == Tuple([j \in 1..NumCols(m) |-> VSum(Column(m, j))])

\* the column sums, a zero sum replaced by 1.0
ColumnSums(m) ==
    Tuple([j \in 1..NumCols(m) |->
              LET s == VSum(Column(m, j)) IN IF s = Zero THEN One ELSE s])

DivideColumnsWrongAxis(m, column_sums) ==
    Tuple([i \in 1..Len(m) |->
              Tuple([j \in 1..NumCols(m) |->
                        RDiv(m[i][j], column_sums[IF i <= Len(column_sums) THEN i ELSE j])])])

\* matrix / column_sums.unsqueeze(0)
DivideColumns(m, column_sums) ==
    Tuple([i \in 1..Len(m) |->
              Tuple([j \in 1..NumCols(m) |-> RDiv(m[i][j], column_sums[j])])])

normalize_columns(m) ==
    IF HasNegative(m)
    THEN [raised |-> "ValueError", matrix |-> <<>>]
    ELSE [raised |-> "none", matrix |-> DivideColumns(m, ColumnSums(m))]

-----------------------------------------------------------------------------
(* algorithms/eigentrust.py: compute_eigentrust *)

DefaultAlpha == Rat(3, 20)

DefaultNormType == "l1"

NoReturn == [raised |-> "pending", global_trust |-> <<>>, iterations |-> 0, converged |-> FALSE]

NoEngine ==
    [trust_matrix |-> <<>>, pre_trust |-> <<>>, peer_ids |-> <<>>, max_iterations |-> 0,
     epsilon |-> Zero, norm_type |-> DefaultNormType, alpha |-> Zero,
     t |-> <<>>, t_new |-> <<>>, status |-> NoStatus, iteration |-> 0,
     history |-> <<>>, ret |-> NoReturn]

IsSquare(m) == \A i \in 1..Len(m) : Len(m[i]) = Len(m)

\* "Ensure pre-trust sums to 1.0"
NormalizePreTrust(pre_trust) ==
    IF ~AllClose(VSum(pre_trust), One)
    THEN VDivide(pre_trust, VSum(pre_trust))
    ELSE pre_trust

\* the locals of compute_eigentrust when its loop is first reached, or the
\* error its validation raises
EngineEntry(trust_matrix, pre_trust, max_iterations, epsilon, norm_type, alpha) ==
    LET base == [NoEngine EXCEPT !.trust_matrix = trust_matrix, !.pre_trust = pre_trust,
                                 !.max_iterations = max_iterations, !.epsilon = epsilon,
                                 !.norm_type = norm_type, !.alpha = alpha]
    IN  IF ~IsSquare(trust_matrix) \/ Len(pre_trust) # Len(trust_matrix)
        THEN [base EXCEPT !.ret = [NoReturn EXCEPT !.raised = "ValueError"]]
        ELSE [base EXCEPT !.pre_trust = NormalizePreTrust(pre_trust),
                          !.t = NormalizePreTrust(pre_trust)]

\* t_new = (1 - alpha) * C^T * t + alpha * p, then t_new / t_new.sum()
UpdateStep(trust_matrix, t, pre_trust, alpha) ==
    LET trust_propagation == MatTVec(trust_matrix, t)
        t_new == VAdd(VScale(RSub(One, alpha), trust_propagation), VScale(alpha, pre_trust))
    IN  VDivide(t_new, VSum(t_new))

LoopContinuesInclusive(iteration, max_iterations) == iteration <= max_iterations

\* for iteration in range(max_iterations)
LoopContinues(iteration, max_iterations) == iteration < max_iterations

EngineBodyWithoutReturn(e) ==
    LET t_new == UpdateStep(e.trust_matrix, e.t, e.pre_trust, e.alpha)
        status == check_convergence(e.t, t_new, e.epsilon, e.norm_type)
    IN  [e EXCEPT !.t_new = t_new, !.status = status, !.iteration = e.iteration + 1,
                  !.t = t_new]

\* one pass through the loop body; e.iteration counts the passes made
EngineBody(e) ==
    LET t_new == UpdateStep(e.trust_matrix, e.t, e.pre_trust, e.alpha)
        status == check_convergence(e.t, t_new, e.epsilon, e.norm_type)
        stepped == [e EXCEPT !.t_new = t_new, !.status = status, !.iteration = e.iteration + 1]
    IN  IF status.raised # "none"
        THEN [stepped EXCEPT !.ret = [NoReturn EXCEPT !.raised = status.raised]]
        ELSE IF status.converged
        THEN [stepped EXCEPT !.ret = [raised |-> "none", global_trust |-> t_new,
                                      iterations |-> e.iteration + 1, converged |-> TRUE]]
        ELSE [stepped EXCEPT !.t = t_new]

\* "Max iterations reached without convergence"
EngineFallThrough(e) ==
    [e EXCEPT !.ret = [raised |-> "none", global_trust |-> e.t,
                       iterations |-> e.max_iterations, converged |-> FALSE]]

\* the loop of compute_eigentrust run to its return or to the error raised
RECURSIVE EngineLoop(_)
EngineLoop(e) ==
    IF e.ret.raised # "pending" THEN e
    ELSE IF LoopContinues(e.iteration, e.max_iterations) THEN EngineLoop(EngineBody(e))
    ELSE EngineFallThrough(e)

\* what compute_eigentrust returns (or raises) for its arguments
compute_eigentrust(trust_matrix, pre_trust, max_iterations, epsilon, norm_type, alpha) ==
    EngineLoop(EngineEntry(trust_matrix, pre_trust, max_iterations, epsilon, norm_type, alpha)).ret

-----------------------------------------------------------------------------
(* algorithms/eigentrust.py: compute_eigentrust_with_history *)

\* {peer_ids[i]: float(t[i].item()) for i in range(n)}
ScoresDict(peer_ids, t) ==
    Dict([id \in {peer_ids[i] : i \in 1..Len(peer_ids)} |->
             t[CHOOSE i \in 1..Len(peer_ids) :
                 /\ peer_ids[i] = id
                 /\ \A k \in 1..Len(peer_ids) : peer_ids[k] = id => k <= i]])

Snapshot(iteration, trust_scores, delta) ==
    [iteration |-> iteration, trust_scores |-> trust_scores, delta |-> delta]

HistoryEntryUncheckedPeerIds(trust_matrix, pre_trust, peer_ids, max_iterations, epsilon, norm_type, alpha) ==
    LET n == Len(trust_matrix)
        used == SubSeq(peer_ids, 1, IF Len(peer_ids) < n THEN Len(peer_ids) ELSE n)
        base == [NoEngine EXCEPT !.trust_matrix = trust_matrix, !.pre_trust = pre_trust,
                                 !.peer_ids = used,
                                 !.max_iterations = max_iterations, !.epsilon = epsilon,
                                 !.norm_type = norm_type, !.alpha = alpha]
    IN  IF ~IsSquare(trust_matrix) \/ Len(pre_trust) # n
        THEN [base EXCEPT !.ret = [NoReturn EXCEPT !.raised = "ValueError"]]
        ELSE IF Len(peer_ids) < n
        THEN [base EXCEPT !.ret = [NoReturn EXCEPT !.raised = "IndexError"]]
        ELSE [base EXCEPT !.pre_trust = NormalizePreTrust(pre_trust),
                          !.t = NormalizePreTrust(pre_trust),
                          !.history = <<Snapshot(0, ScoresDict(used,
                                                   NormalizePreTrust(pre_trust)),
                                                 Float(One))>>]

HistoryEntryNoInitialSnapshot(trust_matrix, pre_trust, peer_ids, max_iterations, epsilon, norm_type, alpha) ==
    LET base == [NoEngine EXCEPT !.trust_matrix = trust_matrix, !.pre_trust = pre_trust,
                                 !.peer_ids = peer_ids,
                                 !.max_iterations = max_iterations, !.epsilon = epsilon,
                                 !.norm_type = norm_type, !.alpha = alpha]
    IN  IF ~IsSquare(trust_matrix) \/ Len(pre_trust) # Len(trust_matrix)
           \/ Len(peer_ids) # Len(trust_matrix)
        THEN [base EXCEPT !.ret = [NoReturn EXCEPT !.raised = "ValueError"]]
        ELSE [base EXCEPT !.pre_trust = NormalizePreTrust(pre_trust),
                          !.t = NormalizePreTrust(pre_trust)]

HistoryEntryUnnormalizedPreTrust(trust_matrix, pre_trust, peer_ids, max_iterations, epsilon, norm_type, alpha) ==
    LET base == [NoEngine EXCEPT !.trust_matrix = trust_matrix, !.pre_trust = pre_trust,
                                 !.peer_ids = peer_ids,
                                 !.max_iterations = max_iterations, !.epsilon = epsilon,
                                 !.norm_type = norm_type, !.alpha = alpha]
    IN  IF ~IsSquare(trust_matrix) \/ Len(pre_trust) # Len(trust_matrix)
           \/ Len(peer_ids) # Len(trust_matrix)
        THEN [base EXCEPT !.ret = [NoReturn EXCEPT !.raised = "ValueError"]]
        ELSE [base EXCEPT !.t = pre_trust,
                          !.history = <<Snapshot(0, ScoresDict(peer_ids, pre_trust),
                                                 Float(One))>>]

\* the locals of compute_eigentrust_with_history when its loop is first
\* reached (the snapshot of iteration 0 recorded), or the error raised
HistoryEntry(trust_matrix, pre_trust, peer_ids, max_iterations, epsilon, norm_type, alpha) ==
    LET base == [NoEngine EXCEPT !.trust_matrix = trust_matrix, !.pre_trust = pre_trust,
                                 !.peer_ids = peer_ids,
                                 !.max_iterations = max_iterations, !.epsilon = epsilon,
                                 !.norm_type = norm_type, !.alpha = alpha]
        p == IF ~AllClose(VSum(pre_trust), One)
             THEN VDivide(pre_trust, VSum(pre_trust))
             ELSE pre_trust
    IN  IF ~IsSquare(trust_matrix) \/ Len(pre_trust) # Len(trust_matrix)
           \/ Len(peer_ids) # Len(trust_matrix)
        THEN [base EXCEPT !.ret = [NoReturn EXCEPT !.raised = "ValueError"]]
        ELSE [base EXCEPT !.pre_trust = p, !.t = p,
                          !.history = <<Snapshot(0, ScoresDict(peer_ids, p), Float(One))>>]

HistoryBodyUnrecordedReturn(e) ==
    LET t_new == UpdateStep(e.trust_matrix, e.t, e.pre_trust, e.alpha)
        status == check_convergence(e.t, t_new, e.epsilon, e.norm_type)
        stepped == [e EXCEPT !.t_new = t_new, !.status = status, !.iteration = e.iteration + 1]
        recorded == [stepped EXCEPT !.history =
                        Append(e.history, Snapshot(e.iteration + 1,
                                                   ScoresDict(e.peer_ids, t_new), status.delta))]
    IN  IF status.raised # "none"
        THEN [stepped EXCEPT !.ret = [NoReturn EXCEPT !.raised = status.raised]]
        ELSE IF status.converged
        THEN [stepped EXCEPT !.ret = [raised |-> "none", global_trust |-> t_new,
                                      iterations |-> e.iteration + 1, converged |-> TRUE]]
        ELSE [recorded EXCEPT !.t = t_new]

\* one pass through the loop body of compute_eigentrust_with_history
HistoryBody(e) ==
    LET trust_propagation == MatTVec(e.trust_matrix, e.t)
        t_sum == VAdd(VScale(RSub(One, e.alpha), trust_propagation),
                      VScale(e.alpha, e.pre_trust))
        t_new == VDivide(t_sum, VSum(t_sum))
        status == check_convergence(e.t, t_new, e.epsilon, e.norm_type)
        stepped == [e EXCEPT !.t_new = t_new, !.status = status, !.iteration = e.iteration + 1]
        recorded == [stepped EXCEPT !.history =
                        Append(e.history, Snapshot(e.iteration + 1,
                                                   ScoresDict(e.peer_ids, t_new), status.delta))]
    IN  IF status.raised # "none"
        THEN [stepped EXCEPT !.ret = [NoReturn EXCEPT !.raised = status.raised]]
        ELSE IF status.converged
        THEN [recorded EXCEPT !.ret = [raised |-> "none", global_trust |-> t_new,
                                       iterations |-> e.iteration + 1, converged |-> TRUE]]
        ELSE [recorded EXCEPT !.t = t_new]

HistoryFallThrough(e) ==
    [e EXCEPT !.ret = [raised |-> "none", global_trust |-> e.t,
                       iterations |-> e.max_iterations, converged |-> FALSE]]

-----------------------------------------------------------------------------
(* domain/__init__.py: TrustScores *)

RECURSIVE SumValues(_)
SumValues(f) ==
    IF DOMAIN f = {} THEN Zero
    ELSE LET k == CHOOSE x \in DOMAIN f : TRUE
         IN  RAdd(SumValues(Dict([y \in DOMAIN f \ {k} |-> f[y]])), f[k])

\* abs(total - 1.0) > 1e-6
ScoresSumInvalid(scores) ==
    RLess(Rat(1, 1000000), RAbs(RSub(SumValues(scores), One)))

ConvergenceInconsistentAlways(converged, final_delta, convergence_epsilon) ==
    DeltaGeq(final_delta, convergence_epsilon)

\* converged and final_delta >= convergence_epsilon
ConvergenceInconsistent(converged, final_delta, convergence_epsilon) ==
    converged /\ DeltaGeq(final_delta, convergence_epsilon)

\* TrustScores(...): the object constructed, or the exception raised
TrustScoresNew(scores, iteration_count, converged, convergence_epsilon, final_delta, history) ==
    IF ScoresSumInvalid(scores)
    THEN [raised |-> "TrustScoreError", obj |-> NoneVal]
    ELSE IF \E k \in DOMAIN scores : RLess(scores[k], Zero)
    THEN [raised |-> "TrustScoreError", obj |-> NoneVal]
    ELSE IF ConvergenceInconsistent(converged, final_delta, convergence_epsilon)
    THEN [raised |-> "ValueError", obj |-> NoneVal]
    ELSE [raised |-> "none",
          obj |-> Some([scores |-> scores, iteration_count |-> iteration_count,
                        converged |-> converged, convergence_epsilon |-> convergence_epsilon,
                        final_delta |-> final_delta, history |-> history])]

-----------------------------------------------------------------------------
(* What a call gives its caller *)

NoOutcome == [op |-> "none", kind |-> "none", exc |-> "none", value |-> NoneVal]

Returned(op, value) == [op |-> op, kind |-> "returned", exc |-> "none", value |-> value]

Raised(op, exc) == [op |-> op, kind |-> "raised", exc |-> exc, value |-> NoneVal]

NoCall == [op |-> "none"]

-----------------------------------------------------------------------------
(* compute_eigentrust called on its own: inputs drawn from bounded sets *)

MatrixEntries == {Zero, One}

PreTrustEntries == {Zero, One}

Alphas == {Zero, Rat(1, 2), One}

Epsilons == {Rat(1, 1000), Rat(1, 2)}

NormTypes == {"l1", "l2"}

Dims == {1, 2}

InitEngine ==
    /\ state = "created"
    /\ peers = <<>>
    /\ interactions = <<>>
    /\ convergence_history = <<>>
    /\ pc = "call"
    /\ \E n \in Dims :
         \E m \in [1..n -> [1..n -> MatrixEntries]], p \in [1..n -> PreTrustEntries],
            mi \in 0..MaxSteps, e \in Epsilons, nt \in NormTypes, a \in Alphas :
              call = [op |-> "compute_eigentrust", trust_matrix |-> m, pre_trust |-> p,
                      max_iterations |-> mi, epsilon |-> e, norm_type |-> nt, alpha |-> a]
    /\ eng = NoEngine
    /\ reply = NoOutcome

\* compute_eigentrust up to its loop
EngineCall ==
    /\ pc = "call"
    /\ call.op = "compute_eigentrust"
    /\ eng' = EngineEntry(call.trust_matrix, call.pre_trust, call.max_iterations,
                          call.epsilon, call.norm_type, call.alpha)
    /\ pc' = IF eng'.ret.raised = "pending" THEN "loop" ELSE "returned"
    /\ UNCHANGED <<simVars, call, reply>>

\* one iteration of the loop of compute_eigentrust
EngineIterate ==
    /\ pc = "loop"
    /\ LoopContinues(eng.iteration, eng.max_iterations)
    /\ eng' = EngineBody(eng)
    /\ pc' = IF eng'.ret.raised = "pending" THEN "loop" ELSE "returned"
    /\ UNCHANGED <<simVars, call, reply>>

\* the loop of compute_eigentrust ends without convergence
EngineExhaust ==
    /\ pc = "loop"
    /\ ~LoopContinues(eng.iteration, eng.max_iterations)
    /\ eng' = EngineFallThrough(eng)
    /\ pc' = "returned"
    /\ UNCHANGED <<simVars, call, reply>>

NextEngine == EngineCall \/ EngineIterate \/ EngineExhaust

SpecEngine == InitEngine /\ [][NextEngine]_vars

-----------------------------------------------------------------------------
(* TrustScores constructed on its own: arguments drawn from bounded sets *)

ScoreValues == {Rat(-1, 2), Zero, Rat(1, 2), One, Rat(3, 2)}

DeltaValues == {Zero, Rat(1, 1000), Rat(1, 4), Rat(1, 2), One, NaN}

ScoreIds == {"p1", "p2"}

InitScores ==
    /\ state = "created"
    /\ peers = <<>>
    /\ interactions = <<>>
    /\ convergence_history = <<>>
    /\ pc = "call"
    /\ \E sc \in [ScoreIds -> ScoreValues], ic \in 0..MaxIterations, cv \in BOOLEAN,
          e \in Epsilons, fd \in DeltaValues :
            call = [op |-> "TrustScores", scores |-> sc, iteration_count |-> ic,
                    converged |-> cv, convergence_epsilon |-> e, final_delta |-> Float(fd)]
    /\ eng = NoEngine
    /\ reply = NoOutcome

ConstructTrustScores ==
    /\ pc = "call"
    /\ call.op = "TrustScores"
    /\ LET r == TrustScoresNew(call.scores, call.iteration_count, call.converged,
                               call.convergence_epsilon, call.final_delta, <<>>)
       IN  reply' = IF r.raised = "none"
                      THEN Returned("TrustScores", r.obj)
                      ELSE Raised("TrustScores", r.raised)
    /\ pc' = "returned"
    /\ UNCHANGED <<simVars, call, eng>>

NextScores == ConstructTrustScores

SpecScores == InitScores /\ [][NextScores]_vars

-----------------------------------------------------------------------------
(* compute_eigentrust_with_history called on its own *)

PeerIdLists == {<<"p1">>, <<"p1", "p2">>}

InitHistory ==
    /\ state = "created"
    /\ peers = <<>>
    /\ interactions = <<>>
    /\ convergence_history = <<>>
    /\ pc = "call"
    /\ \E rows \in Dims, cols \in Dims, len \in Dims :
         \E m \in [1..rows -> [1..cols -> MatrixEntries]], p \in [1..len -> PreTrustEntries],
            ids \in PeerIdLists, mi \in 0..MaxSteps, e \in Epsilons, nt \in NormTypes,
            a \in Alphas :
              call = [op |-> "compute_eigentrust_with_history", trust_matrix |-> m,
                      pre_trust |-> p, peer_ids |-> ids, max_iterations |-> mi,
                      epsilon |-> e, norm_type |-> nt, alpha |-> a]
    /\ eng = NoEngine
    /\ reply = NoOutcome

\* compute_eigentrust_with_history up to its loop
HistoryCall ==
    /\ pc = "call"
    /\ call.op = "compute_eigentrust_with_history"
    /\ eng' = HistoryEntry(call.trust_matrix, call.pre_trust, call.peer_ids,
                           call.max_iterations, call.epsilon, call.norm_type, call.alpha)
    /\ pc' = IF eng'.ret.raised = "pending" THEN "hloop" ELSE "returned"
    /\ UNCHANGED <<simVars, call, reply>>

-----------------------------------------------------------------------------
(* check_convergence called on its own: arguments drawn from bounded sets *)

VectorEntries == {Zero, Rat(1, 4), Rat(1, 2), One}

VectorLengths == {1, 2}

\* the norm selector a caller passes; "default" leaves the argument out
NormSelectors == {"default", "l1", "l2"}

InitConvergence ==
    /\ state = "created"
    /\ peers = <<>>
    /\ interactions = <<>>
    /\ convergence_history = <<>>
    /\ pc = "call"
    /\ \E n_old \in VectorLengths, n_new \in VectorLengths :
         \E t_old \in [1..n_old -> VectorEntries], t_new \in [1..n_new -> VectorEntries],
            e \in Epsilons, nt \in NormSelectors :
              call = [op |-> "check_convergence", t_old |-> t_old, t_new |-> t_new,
                      epsilon |-> e, norm_type |-> nt]
    /\ eng = NoEngine
    /\ reply = NoOutcome

\* status = check_convergence(t_old, t_new, epsilon[, norm_type])
CheckConvergence ==
    /\ pc = "call"
    /\ call.op = "check_convergence"
    /\ LET norm_type == IF call.norm_type = "default" THEN "l1" ELSE call.norm_type
           r == check_convergence(call.t_old, call.t_new, call.epsilon, norm_type)
       IN  reply' = IF r.raised = "none"
                      THEN Returned("check_convergence",
                                    Some([converged |-> r.converged, delta |-> r.delta]))
                      ELSE Raised("check_convergence", r.raised)
    /\ pc' = "returned"
    /\ UNCHANGED <<simVars, call, eng>>

NextConvergence == CheckConvergence

SpecConvergence == InitConvergence /\ [][NextConvergence]_vars

-----------------------------------------------------------------------------
(* normalize_columns called on its own, and called again on its result *)

NormEntries == {Rat(-1, 1), Zero, One, Rat(2, 1)}

Shapes == {1, 2}

InitNormalize ==
    /\ state = "created"
    /\ peers = <<>>
    /\ interactions = <<>>
    /\ convergence_history = <<>>
    /\ pc = "call"
    /\ \E rows \in Shapes, cols \in Shapes :
         \E m \in [1..rows -> [1..cols -> NormEntries]] :
            call = [op |-> "normalize_columns", matrix |-> m, calls |-> 0]
    /\ eng = NoEngine
    /\ reply = NoOutcome

\* normalized = normalize_columns(matrix)
NormalizeColumns ==
    /\ pc = "call"
    /\ call.op = "normalize_columns"
    /\ LET r == normalize_columns(call.matrix)
       IN  reply' = IF r.raised = "none"
                      THEN Returned("normalize_columns", Some(r.matrix))
                      ELSE Raised("normalize_columns", r.raised)
    /\ pc' = "returned"
    /\ UNCHANGED <<simVars, call, eng>>

\* the caller passes the matrix returned to normalize_columns once more
NormalizeResult ==
    /\ pc = "returned"
    /\ call.op = "normalize_columns"
    /\ call.calls = 0
    /\ reply.kind = "returned"
    /\ call' = [op |-> "normalize_columns", matrix |-> reply.value[1], calls |-> 1]
    /\ pc' = "call"
    /\ UNCHANGED <<simVars, eng, reply>>

NextNormalize == NormalizeColumns \/ NormalizeResult

SpecNormalize == InitNormalize /\ [][NextNormalize]_vars

-----------------------------------------------------------------------------
(* domain/peer.py *)

InUnit(x) == RLeq(Zero, x) /\ RLeq(x, One)

\* Peer(competence, maliciousness, peer_id)
PeerNew(competence, maliciousness, peer_id) ==
    IF ~InUnit(competence) \/ ~InUnit(maliciousness)
    THEN [raised |-> "InvalidPeerCharacteristics", obj |-> NoneVal]
    ELSE [raised |-> "none",
          obj |-> Some([peer_id |-> peer_id, competence |-> competence,
                        maliciousness |-> maliciousness, global_trust |-> NoneVal,
                        local_trust |-> <<>>])]

\* Peer.update_local_trust before its renormalization: the partner's trust
\* started at 0.5 if new, moved by 0.1 and clamped
ClampedLocalTrust(local_trust, partner_id, interaction_success) ==
    LET started == Dict([k \in DOMAIN local_trust \cup {partner_id} |->
                            IF k \in DOMAIN local_trust THEN local_trust[k] ELSE Rat(1, 2)])
        trust_delta == IF interaction_success THEN Rat(1, 10) ELSE Rat(-1, 10)
        new_trust == RAdd(started[partner_id], trust_delta)
    IN  [started EXCEPT ![partner_id] = RMax(Zero, RMin(One, new_trust))]

UpdateLocalTrustWithoutRenormalizing(local_trust, partner_id, interaction_success) ==
    ClampedLocalTrust(local_trust, partner_id, interaction_success)

\* Peer.update_local_trust: the new value of self.local_trust
update_local_trust(local_trust, partner_id, interaction_success) ==
    LET started == Dict([k \in DOMAIN local_trust \cup {partner_id} |->
                            IF k \in DOMAIN local_trust THEN local_trust[k] ELSE Rat(1, 2)])
        trust_delta == IF interaction_success THEN Rat(1, 10) ELSE Rat(-1, 10)
        new_trust == RAdd(started[partner_id], trust_delta)
        clamped == [started EXCEPT ![partner_id] = RMax(Zero, RMin(One, new_trust))]
        total_trust == SumValues(clamped)
    IN  IF RLess(Zero, total_trust)
        THEN Dict([k \in DOMAIN clamped |-> RDiv(clamped[k], total_trust)])
        ELSE clamped

-----------------------------------------------------------------------------
(* domain/trust_matrix.py and the matrix builder of domain/simulation.py *)

PeerIdsOf(ps) == {ps[i].peer_id : i \in 1..Len(ps)}

\* the first peer of the list with this id
FirstIndex(ps, id) ==
    CHOOSE i \in 1..Len(ps) :
        ps[i].peer_id = id /\ \A k \in 1..Len(ps) : ps[k].peer_id = id => i <= k

\* {peer.peer_id: idx for idx, peer in enumerate(self.peers)}: a repeated id
\* keeps its last index (indices count from 1 here)
PeerMapping(ps) ==
    Dict([id \in PeerIdsOf(ps) |->
             CHOOSE i \in 1..Len(ps) :
                 ps[i].peer_id = id /\ \A k \in 1..Len(ps) : ps[k].peer_id = id => k <= i])

\* list(peer_mapping.keys()): the ids in the order they were first inserted
RECURSIVE MappingKeys(_)
MappingKeys(ps) ==
    IF ps = <<>> THEN <<>>
    ELSE LET front == SubSeq(ps, 1, Len(ps) - 1)
             last == ps[Len(ps)].peer_id
         IN  IF last \in PeerIdsOf(front) THEN MappingKeys(front)
             ELSE Append(MappingKeys(front), last)

\* TrustMatrix(matrix, peer_mapping)
TrustMatrixNew(matrix, peer_mapping) ==
    IF ~IsSquare(matrix) THEN [raised |-> "ValueError", obj |-> NoneVal]
    ELSE IF HasNegative(matrix) THEN [raised |-> "ValueError", obj |-> NoneVal]
    ELSE IF Cardinality(DOMAIN peer_mapping) # Len(matrix)
    THEN [raised |-> "ValueError", obj |-> NoneVal]
    ELSE [raised |-> "none",
          obj |-> Some([matrix |-> matrix, peer_mapping |-> peer_mapping,
                        normalized |-> FALSE])]

DerivedLocalTrustUnnormalized(ps, log, peer) ==
    LET peer_interactions == {k \in 1..Len(log) : log[k].source_peer_id = peer.peer_id}
        other_peers == {i \in 1..Len(ps) : ps[i].peer_id # peer.peer_id}
        targets == {log[k].target_peer_id : k \in peer_interactions}
        success(tg) == Cardinality({k \in peer_interactions :
                          log[k].target_peer_id = tg /\ log[k].outcome = "success"})
        failure(tg) == Cardinality({k \in peer_interactions :
                          log[k].target_peer_id = tg /\ log[k].outcome # "success"})
    IN  IF peer_interactions = {}
        THEN IF other_peers # {}
             THEN Dict([id \in {ps[i].peer_id : i \in other_peers} |->
                           Rat(1, Cardinality(other_peers))])
             ELSE peer.local_trust
        ELSE Dict([tg \in targets |-> Rat(success(tg), success(tg) + failure(tg))])

\* Simulation._update_peer_local_trust_from_interactions: the value
\* peer.local_trust has afterwards
DerivedLocalTrust(ps, log, peer) ==
    LET peer_interactions == {k \in 1..Len(log) : log[k].source_peer_id = peer.peer_id}
        other_peers == {i \in 1..Len(ps) : ps[i].peer_id # peer.peer_id}
        targets == {log[k].target_peer_id : k \in peer_interactions}
        success(tg) == Cardinality({k \in peer_interactions :
                          log[k].target_peer_id = tg /\ log[k].outcome = "success"})
        failure(tg) == Cardinality({k \in peer_interactions :
                          log[k].target_peer_id = tg /\ log[k].outcome # "success"})
        rates == Dict([tg \in {x \in targets : success(x) + failure(x) > 0} |->
                          Rat(success(tg), success(tg) + failure(tg))])
        total_trust == SumValues(rates)
    IN  IF peer_interactions = {}
        THEN IF other_peers # {}
             THEN Dict([id \in {ps[i].peer_id : i \in other_peers} |->
                           Rat(1, Cardinality(other_peers))])
             ELSE peer.local_trust
        ELSE IF RLess(Zero, total_trust)
        THEN Dict([tg \in DOMAIN rates |-> RDiv(rates[tg], total_trust)])
        ELSE Dict([tg \in DOMAIN rates |-> Rat(1, Cardinality(DOMAIN rates))])

\* the peers after the loop of _build_trust_matrix: a peer without local
\* trust has it derived from the interactions
WithLocalTrust(ps, log) ==
    Tuple([i \in 1..Len(ps) |->
              IF DOMAIN ps[i].local_trust # {} THEN ps[i]
              ELSE [ps[i] EXCEPT !.local_trust = DerivedLocalTrust(ps, log, ps[i])]])

\* matrix[i, j] = trust_value for the ids of local_trust that peer_mapping knows
MatrixRow(ps, peer_mapping, i) ==
    Tuple([j \in 1..Len(ps) |->
              LET ids == {id \in DOMAIN ps[i].local_trust :
                             id \in DOMAIN peer_mapping /\ peer_mapping[id] = j}
              IN  IF ids = {} THEN Zero ELSE ps[i].local_trust[CHOOSE id \in ids : TRUE]])

MatrixOf(ps) == Tuple([i \in 1..Len(ps) |-> MatrixRow(ps, PeerMapping(ps), i)])

\* Simulation._build_trust_matrix: the peers as it leaves them and the
\* TrustMatrix (or the exception of its constructor)
BuildTrustMatrix(ps, log) ==
    LET updated == WithLocalTrust(ps, log)
    IN  [peers |-> updated, tm |-> TrustMatrixNew(MatrixOf(updated), PeerMapping(updated))]

\* torch.ones(n) / n
UniformPreTrust(n) == Tuple([i \in 1..n |-> Rat(1, n)])

-----------------------------------------------------------------------------
(* simulation/interactions.py: simulate_interactions *)

Outcomes == {"success", "failure"}

Interaction(source_peer_id, target_peer_id, outcome) ==
    [source_peer_id |-> source_peer_id, target_peer_id |-> target_peer_id,
     outcome |-> outcome]

\* available_targets = [p for p in peers if p.peer_id != source.peer_id]
AvailableTargets(ps, s) == {i \in 1..Len(ps) : ps[i].peer_id # ps[s].peer_id}

\* one pass of the loop: any source, any available target (every weight is
\* at least 1), either outcome (the noise can carry the draw either way)
Selections(ps) ==
    {Interaction(ps[s].peer_id, ps[t].peer_id, o) :
        <<s, t, o>> \in {x \in (1..Len(ps)) \X (1..Len(ps)) \X Outcomes :
                            x[2] \in AvailableTargets(ps, x[1])}}

\* the lists simulate_interactions can return
SimulatedLists(ps, num_interactions) == [1..num_interactions -> Selections(ps)]

\* random.choice on an empty list of targets raises
SelectionCanRaise(ps, num_interactions) ==
    num_interactions > 0 /\ \E s \in 1..Len(ps) : AvailableTargets(ps, s) = {}

-----------------------------------------------------------------------------
(* simulation/interactions.py with the generator of the random module made
   explicit: every draw is a function of the generator's state and moves it *)

MaxNumInteractions == 2

\* the states of the generator
RandomStates == 0..7

\* the state the generator is left in by one draw
NextRandom(random_state) == (5 * random_state + 3) % 8

\* random.seed(seed)
SeedRandomIgnored(seed, random_state) == random_state

SeedRandom(seed, random_state) ==
    IF seed # NoneVal THEN seed[1] % 8 ELSE random_state

\* random.random(): a float in [0, 1)
RandomUnit(random_state) == Rat(random_state, 8)

\* random.choice(seq): the index drawn, from 1
RandomIndex(random_state, n) == (random_state * n) \div 8 + 1

\* random.gauss(0, 0.05)
RandomGauss(random_state) ==
    IF random_state % 3 = 0 THEN Rat(-1, 20)
    ELSE IF random_state % 3 = 1 THEN Zero ELSE Rat(1, 20)

\* compute_interaction_outcome(peer, partner): two draws
compute_interaction_outcome(peer, partner, random_state) ==
    LET technical_success == RSub(One, peer.competence)
        cooperation_factor == RSub(One, peer.maliciousness)
        base_prob == RMul(technical_success, cooperation_factor)
        noise == RandomGauss(random_state)
        final_prob == RMax(Zero, RMin(One, RAdd(base_prob, noise)))
    IN  IF RLess(RandomUnit(NextRandom(random_state)), final_prob)
        THEN "success" ELSE "failure"

\* [p for p in peers if p.peer_id != source.peer_id]
AvailableTargetPeersUnfiltered(ps, source) == ps

AvailableTargetPeers(ps, source) ==
    SelectSeq(ps, LAMBDA p : p.peer_id # source.peer_id)

\* sum(weights[:k])
RECURSIVE CumulativeWeight(_, _, _)
CumulativeWeight(available_targets, peer_success_counts, k) ==
    IF k = 0 THEN 0
    ELSE CumulativeWeight(available_targets, peer_success_counts, k - 1)
         + peer_success_counts[available_targets[k].peer_id]

\* random.choices(available_targets, weights=probabilities, k=1)[0]: the
\* first target whose cumulative probability exceeds the draw
WeightedChoice(available_targets, peer_success_counts, random_state) ==
    LET total_weight == CumulativeWeight(available_targets, peer_success_counts,
                                         Len(available_targets))
        above(k) == random_state * total_weight
                      < 8 * CumulativeWeight(available_targets, peer_success_counts, k)
    IN  available_targets[CHOOSE k \in 1..Len(available_targets) :
                              above(k) /\ \A l \in 1..(k - 1) : ~above(l)]

\* the loop of simulate_interactions from one of its passes on: the list
\* returned or the exception raised, and the state the generator is left in
RECURSIVE SimulationLoop(_, _, _, _, _, _)
SimulationLoop(ps, remaining, peer_success_counts, interactions_so_far, random_state, use_preferential_attachment) ==
    IF remaining = 0
    THEN [raised |-> "none", interactions |-> interactions_so_far,
          random_state |-> random_state]
    ELSE LET source == ps[RandomIndex(random_state, Len(ps))]
             drawn1 == NextRandom(random_state)
             available_targets == AvailableTargetPeers(ps, source)
         IN  IF available_targets = <<>>
             THEN [raised |-> "IndexError", interactions |-> <<>>, random_state |-> drawn1]
             ELSE LET target == IF use_preferential_attachment
                                THEN WeightedChoice(available_targets, peer_success_counts,
                                                    drawn1)
                                ELSE available_targets[RandomIndex(drawn1,
                                                                   Len(available_targets))]
                      drawn2 == NextRandom(drawn1)
                      outcome == compute_interaction_outcome(target, source, drawn2)
                      drawn4 == NextRandom(NextRandom(drawn2))
                      counted == IF outcome = "success"
                                 THEN [peer_success_counts EXCEPT ![target.peer_id] = @ + 1]
                                 ELSE peer_success_counts
                  IN  IF source.peer_id = target.peer_id
                      THEN [raised |-> "ValueError", interactions |-> <<>>,
                            random_state |-> drawn4]
                      ELSE SimulationLoop(ps, remaining - 1, counted,
                                          Append(interactions_so_far,
                                                 Interaction(source.peer_id, target.peer_id,
                                                             outcome)),
                                          drawn4, use_preferential_attachment)

\* simulate_interactions(peers, num_interactions, seed, use_preferential_attachment)
\* called when the generator is in random_state
simulate_interactions(ps, num_interactions, seed, use_preferential_attachment, random_state) ==
    IF Len(ps) < 2
    THEN [raised |-> "ValueError", interactions |-> <<>>, random_state |-> random_state]
    ELSE SimulationLoop(ps, num_interactions,
                        Dict([id \in PeerIdsOf(ps) |-> 1]), <<>>,
                        SeedRandom(seed, random_state), use_preferential_attachment)

-----------------------------------------------------------------------------
(* simulate_interactions called twice with the same arguments, other draws
   from the generator in between *)

PeerPool ==
    {PeerNew(Zero, Zero, "a").obj[1], PeerNew(Rat(1, 2), Rat(1, 2), "b").obj[1],
     PeerNew(One, One, "c").obj[1]}

PeerListLengths == {0, 1, 2, 3}

Seeds == {NoneVal, Some(1), Some(6)}

InitSimulate ==
    /\ state = "created"
    /\ \E n \in PeerListLengths : peers \in [1..n -> PeerPool]
    /\ interactions = <<>>
    /\ convergence_history = <<>>
    /\ pc = "first"
    /\ \E num_interactions \in 0..MaxNumInteractions, seed \in Seeds,
          use_preferential_attachment \in BOOLEAN, random_state \in RandomStates :
         call = [op |-> "simulate_interactions", num_interactions |-> num_interactions,
                 seed |-> seed, use_preferential_attachment |-> use_preferential_attachment,
                 random_state |-> random_state, interactions1 |-> NoOutcome]
    /\ eng = NoEngine
    /\ reply = NoOutcome

\* what a call of simulate_interactions gives its caller
SimulateOutcome(result) ==
    IF result.raised # "none" THEN Raised("simulate_interactions", result.raised)
    ELSE Returned("simulate_interactions", Some(result.interactions))

\* interactions1 = simulate_interactions(peers, num_interactions, seed, ...)
SimulateFirst ==
    /\ pc = "first"
    /\ LET result == simulate_interactions(peers, call.num_interactions, call.seed,
                                           call.use_preferential_attachment,
                                           call.random_state)
       IN  /\ reply' = SimulateOutcome(result)
           /\ call' = [call EXCEPT !.random_state = result.random_state,
                                   !.interactions1 = SimulateOutcome(result)]
    /\ pc' = "between"
    /\ UNCHANGED <<simVars, eng>>

\* other code draws from the generator between the two calls
DrawElsewhere ==
    /\ pc = "between"
    /\ \E random_state \in RandomStates \ {call.random_state} :
         call' = [call EXCEPT !.random_state = random_state]
    /\ pc' = "second"
    /\ UNCHANGED <<simVars, eng, reply>>

\* interactions2 = simulate_interactions(peers, num_interactions, seed, ...)
SimulateSecond ==
    /\ pc = "second"
    /\ LET result == simulate_interactions(peers, call.num_interactions, call.seed,
                                           call.use_preferential_attachment,
                                           call.random_state)
       IN  /\ reply' = SimulateOutcome(result)
           /\ call' = [call EXCEPT !.random_state = result.random_state]
    /\ pc' = "done"
    /\ UNCHANGED <<simVars, eng>>

NextSimulate == SimulateFirst \/ DrawElsewhere \/ SimulateSecond

SpecSimulate == InitSimulate /\ [][NextSimulate]_vars

-----------------------------------------------------------------------------
(* simulate_interactions pass by pass: its locals after every pass of the loop *)

\* if outcome == InteractionOutcome.SUCCESS: peer_success_counts[target.peer_id] += 1
CountSuccessOfSource(peer_success_counts, source, target, outcome) ==
    IF outcome = "success"
    THEN [peer_success_counts EXCEPT ![source.peer_id] = @ + 1]
    ELSE peer_success_counts

CountSuccess(peer_success_counts, source, target, outcome) ==
    IF outcome = "success"
    THEN [peer_success_counts EXCEPT ![target.peer_id] = @ + 1]
    ELSE peer_success_counts

NoLocals ==
    [peer_success_counts |-> <<>>, interactions |-> <<>>, passes |-> 0,
     random_state |-> 0, available_targets |-> <<>>, raised |-> "pending"]

\* simulate_interactions up to its loop
SimulationEntry(ps, seed, random_state) ==
    IF Len(ps) < 2
    THEN [NoLocals EXCEPT !.random_state = random_state, !.raised = "ValueError"]
    ELSE [NoLocals EXCEPT !.random_state = SeedRandom(seed, random_state),
                          !.peer_success_counts = Dict([id \in PeerIdsOf(ps) |-> 1])]

\* one pass of the loop of simulate_interactions
SimulationPass(ps, locals, use_preferential_attachment) ==
    LET source == ps[RandomIndex(locals.random_state, Len(ps))]
        drawn1 == NextRandom(locals.random_state)
        available_targets == AvailableTargetPeers(ps, source)
    IN  IF available_targets = <<>>
        THEN [locals EXCEPT !.raised = "IndexError", !.random_state = drawn1,
                            !.available_targets = available_targets]
        ELSE LET target == IF use_preferential_attachment
                           THEN WeightedChoice(available_targets,
                                               locals.peer_success_counts, drawn1)
                           ELSE available_targets[RandomIndex(drawn1,
                                                              Len(available_targets))]
                 drawn2 == NextRandom(drawn1)
                 outcome == compute_interaction_outcome(target, source, drawn2)
                 drawn4 == NextRandom(NextRandom(drawn2))
             IN  IF source.peer_id = target.peer_id
                 THEN [locals EXCEPT !.raised = "ValueError", !.random_state = drawn4,
                                     !.available_targets = available_targets]
                 ELSE [locals EXCEPT
                         !.peer_success_counts = CountSuccess(@, source, target, outcome),
                         !.interactions = Append(@, Interaction(source.peer_id,
                                                                target.peer_id, outcome)),
                         !.passes = @ + 1,
                         !.random_state = drawn4,
                         !.available_targets = available_targets]

InitAttachment ==
    /\ state = "created"
    /\ \E n \in PeerListLengths : peers \in [1..n -> PeerPool]
    /\ interactions = <<>>
    /\ convergence_history = <<>>
    /\ pc = "call"
    /\ \E num_interactions \in 0..MaxNumInteractions, seed \in Seeds,
          use_preferential_attachment \in BOOLEAN, random_state \in RandomStates :
         call = [op |-> "simulate_interactions", num_interactions |-> num_interactions,
                 seed |-> seed, use_preferential_attachment |-> use_preferential_attachment,
                 random_state |-> random_state]
    /\ eng = NoLocals
    /\ reply = NoOutcome

\* simulate_interactions up to its loop
SimulateEntry ==
    /\ pc = "call"
    /\ call.op = "simulate_interactions"
    /\ eng' = SimulationEntry(peers, call.seed, call.random_state)
    /\ IF eng'.raised # "pending"
       THEN /\ reply' = Raised("simulate_interactions", eng'.raised)
            /\ pc' = "returned"
       ELSE /\ pc' = "sloop"
            /\ UNCHANGED reply
    /\ UNCHANGED <<simVars, call>>

\* one pass of the loop of simulate_interactions
SimulatePass ==
    /\ pc = "sloop"
    /\ eng.passes < call.num_interactions
    /\ eng' = SimulationPass(peers, eng, call.use_preferential_attachment)
    /\ IF eng'.raised # "pending"
       THEN /\ reply' = Raised("simulate_interactions", eng'.raised)
            /\ pc' = "returned"
       ELSE UNCHANGED <<pc, reply>>
    /\ UNCHANGED <<simVars, call>>

\* return interactions
SimulateReturn ==
    /\ pc = "sloop"
    /\ ~(eng.passes < call.num_interactions)
    /\ reply' = Returned("simulate_interactions", Some(eng.interactions))
    /\ pc' = "returned"
    /\ UNCHANGED <<simVars, call, eng>>

NextAttachment == SimulateEntry \/ SimulatePass \/ SimulateReturn

SpecAttachment == InitAttachment /\ [][NextAttachment]_vars

-----------------------------------------------------------------------------
(* domain/simulation.py: Simulation *)

PeerIds == {"a", "b", "c"}

Characteristics == {Rat(1, 2), Rat(3, 2)}

RunEpsilons == {Rat(1, 1000), Rat(3, 2)}

\* Simulation()
Init ==
    /\ state = "created"
    /\ peers = <<>>
    /\ interactions = <<>>
    /\ convergence_history = <<>>
    /\ pc = "idle"
    /\ call = NoCall
    /\ eng = NoEngine
    /\ reply = NoOutcome

\* Simulation.add_peer
AddPeer ==
    /\ pc = "idle"
    /\ \E competence \in Characteristics, maliciousness \in Characteristics,
          peer_id \in PeerIds :
         LET peer == PeerNew(competence, maliciousness, peer_id)
         IN  IF peer.raised # "none"
             THEN /\ reply' = Raised("add_peer", peer.raised)
                  /\ UNCHANGED peers
             ELSE /\ Len(peers) < MaxPeers
                  /\ peers' = Append(peers, peer.obj[1])
                  /\ reply' = Returned("add_peer", peer.obj)
    /\ UNCHANGED <<state, interactions, convergence_history, pc, call, eng>>

\* Simulation.add_interaction
AddInteraction ==
    /\ pc = "idle"
    /\ \E source \in PeerIds, target \in PeerIds, o \in Outcomes :
         /\ source # target
         /\ IF source \notin PeerIdsOf(peers) \/ target \notin PeerIdsOf(peers)
            THEN /\ reply' = Raised("add_interaction", "OrphanInteractionError")
                 /\ UNCHANGED interactions
            ELSE /\ Len(interactions) < MaxLog
                 /\ interactions' = Append(interactions, Interaction(source, target, o))
                 /\ reply' = Returned("add_interaction", NoneVal)
    /\ UNCHANGED <<state, peers, convergence_history, pc, call, eng>>

\* the loop of Simulation.simulate_interactions: each new interaction updates
\* the local trust of the first peer that has the source's id
RECURSIVE RecordAll(_, _)
RecordAll(ps, new_interactions) ==
    IF new_interactions = <<>> THEN ps
    ELSE LET interaction == Head(new_interactions)
             i == FirstIndex(ps, interaction.source_peer_id)
         IN  RecordAll([ps EXCEPT ![i].local_trust =
                           update_local_trust(@, interaction.target_peer_id,
                                              interaction.outcome = "success")],
                       Tail(new_interactions))

\* Simulation.simulate_interactions
SimulateInteractions ==
    /\ pc = "idle"
    /\ \E count \in 0..MaxSimCount :
         IF Len(peers) < 2
         THEN /\ reply' = Raised("simulate_interactions", "InsufficientPeersError")
              /\ UNCHANGED <<peers, interactions>>
         ELSE \/ /\ SelectionCanRaise(peers, count)
                 /\ reply' = Raised("simulate_interactions", "IndexError")
                 /\ UNCHANGED <<peers, interactions>>
              \/ /\ Len(interactions) + count <= MaxLog
                 /\ \E new_interactions \in SimulatedLists(peers, count) :
                      /\ interactions' = interactions \o new_interactions
                      /\ peers' = RecordAll(peers, new_interactions)
                      /\ reply' = Returned("simulate_interactions", Some(new_interactions))
    /\ UNCHANGED <<state, convergence_history, pc, call, eng>>

RunAlgorithmGuardInsideTry ==
    /\ pc = "idle"
    /\ \E max_iterations \in 0..MaxIterations, epsilon \in RunEpsilons,
          track_history \in BOOLEAN :
         IF Len(peers) < 2
         THEN /\ reply' = Raised("run_algorithm", "InsufficientPeersError")
              /\ state' = "failed"
              /\ UNCHANGED <<pc, call>>
         ELSE /\ state' = "running"
              /\ pc' = "build"
              /\ call' = [op |-> "run_algorithm", max_iterations |-> max_iterations,
                          epsilon |-> epsilon, track_history |-> track_history]
              /\ reply' = NoOutcome
    /\ UNCHANGED <<peers, interactions, convergence_history, eng>>

\* Simulation.run_algorithm up to the try block
RunAlgorithm ==
    /\ pc = "idle"
    /\ \E max_iterations \in 0..MaxIterations, epsilon \in RunEpsilons,
          track_history \in BOOLEAN :
         IF Len(peers) < 2
         THEN /\ reply' = Raised("run_algorithm", "InsufficientPeersError")
              /\ UNCHANGED <<state, pc, call>>
         ELSE /\ state' = "running"
              /\ pc' = "build"
              /\ call' = [op |-> "run_algorithm", max_iterations |-> max_iterations,
                          epsilon |-> epsilon, track_history |-> track_history]
              /\ reply' = NoOutcome
    /\ UNCHANGED <<peers, interactions, convergence_history, eng>>

RunFailsStillRunning(exc) ==
    /\ state' = state
    /\ reply' = Raised("run_algorithm", exc)
    /\ pc' = "idle"
    /\ call' = NoCall
    /\ eng' = NoEngine

\* except Exception: self.state = FAILED; raise
RunFails(exc) ==
    /\ state' = "failed"
    /\ reply' = Raised("run_algorithm", exc)
    /\ pc' = "idle"
    /\ call' = NoCall
    /\ eng' = NoEngine

\* run_algorithm from the matrix build to the engine's loop
RunBuild ==
    /\ pc = "build"
    /\ LET built == BuildTrustMatrix(peers, interactions)
           n == Len(peers)
       IN  /\ peers' = built.peers
           /\ IF built.tm.raised # "none"
              THEN RunFails(built.tm.raised)
              ELSE LET trust_matrix == built.tm.obj[1]
                       normalized == normalize_columns(trust_matrix.matrix)
                       entry == IF call.track_history
                                THEN HistoryEntry(normalized.matrix, UniformPreTrust(n),
                                                  MappingKeys(built.peers),
                                                  call.max_iterations, call.epsilon,
                                                  DefaultNormType, DefaultAlpha)
                                ELSE EngineEntry(normalized.matrix, UniformPreTrust(n),
                                                 call.max_iterations, call.epsilon,
                                                 DefaultNormType, DefaultAlpha)
                   IN  IF normalized.raised # "none"
                       THEN RunFails(normalized.raised)
                       ELSE IF entry.ret.raised # "pending"
                       THEN RunFails(entry.ret.raised)
                       ELSE /\ eng' = entry
                            /\ pc' = IF call.track_history THEN "hloop" ELSE "loop"
                            /\ UNCHANGED <<state, call, reply>>
    /\ UNCHANGED <<interactions, convergence_history>>

\* one iteration of the loop of compute_eigentrust_with_history
HistoryIterate ==
    /\ pc = "hloop"
    /\ eng.iteration < eng.max_iterations
    /\ eng' = HistoryBody(eng)
    /\ pc' = IF eng'.ret.raised = "pending" THEN "hloop" ELSE "returned"
    /\ UNCHANGED <<simVars, call, reply>>

\* the loop of compute_eigentrust_with_history ends without convergence
HistoryExhaust ==
    /\ pc = "hloop"
    /\ ~(eng.iteration < eng.max_iterations)
    /\ eng' = HistoryFallThrough(eng)
    /\ pc' = "returned"
    /\ UNCHANGED <<simVars, call, reply>>

NextHistory == HistoryCall \/ HistoryIterate \/ HistoryExhaust

SpecHistory == InitHistory /\ [][NextHistory]_vars

-----------------------------------------------------------------------------
(* both entry points of the engine, called with arguments of any shape *)

InitEngineAnyShape ==
    /\ state = "created"
    /\ peers = <<>>
    /\ interactions = <<>>
    /\ convergence_history = <<>>
    /\ pc = "call"
    /\ \E rows \in Dims, cols \in Dims, len \in Dims :
         \E m \in [1..rows -> [1..cols -> MatrixEntries]], p \in [1..len -> PreTrustEntries],
            mi \in 0..MaxSteps, e \in Epsilons, nt \in NormTypes, a \in Alphas :
              call = [op |-> "compute_eigentrust", trust_matrix |-> m, pre_trust |-> p,
                      max_iterations |-> mi, epsilon |-> e, norm_type |-> nt, alpha |-> a]
    /\ eng = NoEngine
    /\ reply = NoOutcome

InitEntryPoints == InitEngineAnyShape \/ InitHistory

NextEntryPoints == NextEngine \/ NextHistory

SpecEntryPoints == InitEntryPoints /\ [][NextEntryPoints]_vars

\* final_delta as run_algorithm computes it
FinalDelta(pre_trust, global_trust_vector, epsilon, iterations) ==
    IF iterations > 1
    THEN check_convergence(pre_trust, global_trust_vector, epsilon, DefaultNormType).delta
    ELSE Float(One)

\* for peer in self.peers: peer.global_trust = scores[peer.peer_id]
WriteBack(ps, scores) ==
    Tuple([i \in 1..Len(ps) |-> [ps[i] EXCEPT !.global_trust = Some(scores[ps[i].peer_id])]])

\* run_algorithm after the engine has returned
RunFinish ==
    /\ pc = "returned"
    /\ call.op = "run_algorithm"
    /\ IF eng.ret.raised # "none"
       THEN /\ RunFails(eng.ret.raised)
            /\ UNCHANGED <<peers, convergence_history>>
       ELSE LET global_trust_vector == eng.ret.global_trust
                iterations == eng.ret.iterations
                converged == eng.ret.converged
                history == IF call.track_history THEN eng.history ELSE convergence_history
                peer_mapping == PeerMapping(peers)
                scores == Dict([id \in DOMAIN peer_mapping |->
                                   global_trust_vector[peer_mapping[id]]])
                final_delta == FinalDelta(UniformPreTrust(Len(peers)), global_trust_vector,
                                          call.epsilon, iterations)
                trust_scores == TrustScoresNew(scores, iterations, converged, call.epsilon,
                                               final_delta,
                                               IF call.track_history THEN history ELSE <<>>)
            IN  /\ convergence_history' = history
                /\ peers' = WriteBack(peers, scores)
                /\ IF trust_scores.raised # "none"
                   THEN RunFails(trust_scores.raised)
                   ELSE /\ state' = "completed"
                        /\ reply' = Returned("run_algorithm", trust_scores.obj)
                        /\ pc' = "idle"
                        /\ call' = NoCall
                        /\ eng' = NoEngine
    /\ UNCHANGED interactions

-----------------------------------------------------------------------------
(* The properties of TrustScores and of compute_eigentrust *)

TrustScoresReturned == reply.op = "TrustScores" /\ reply.kind = "returned"

\* C3: every TrustScores value that exists has converged => final_delta <
\* convergence_epsilon, and the constructor called with converged = True and
\* final_delta >= convergence_epsilon raises and yields no object
C3_ConvergedImpliesDeltaBelowEpsilon ==
    /\ TrustScoresReturned =>
          LET obj == reply.value[1]
          IN  obj.converged => DeltaLess(obj.final_delta, obj.convergence_epsilon)
    /\ (/\ pc = "returned"
        /\ call.op = "TrustScores"
        /\ call.converged
        /\ DeltaGeq(call.final_delta, call.convergence_epsilon))
          => reply.kind = "raised" /\ reply.value = NoneVal

EngineReturned ==
    pc = "returned" /\ call.op = "compute_eigentrust" /\ eng.ret.raised = "none"

\* no pass of the loop made so far had a delta below epsilon
NoStepConverged ==
    eng.iteration = 0 \/ ~DeltaLess(eng.status.delta, eng.epsilon)

\* C4: compute_eigentrust makes at most max_iterations update steps, returns
\* an iteration count <= max_iterations, and when no step's delta is below
\* epsilon returns converged = False, the count max_iterations and the vector
\* of the last step made
C4_IterationBudgetIsHardCap ==
    /\ call.op = "compute_eigentrust" => eng.iteration <= call.max_iterations
    /\ EngineReturned =>
          /\ eng.ret.iterations <= call.max_iterations
          /\ NoStepConverged =>
                /\ eng.ret.converged = FALSE
                /\ eng.ret.iterations = call.max_iterations
                /\ eng.iteration = call.max_iterations
                /\ eng.ret.global_trust = IF eng.iteration = 0 THEN eng.pre_trust
                                          ELSE eng.t_new

C4_BudgetExhausted ==
    /\ EngineReturned
    /\ call.max_iterations = MaxSteps
    /\ eng.iteration = MaxSteps
    /\ eng.ret.converged = FALSE
    /\ eng.t_new # eng.pre_trust

\* C5: compute_eigentrust returns (t_{k+1}, k+1, True) at the first step
\* whose delta is below epsilon and makes no further update; it never
\* returns converged = True when the delta of the last step is >= epsilon
C5_StopsAtFirstConvergingStep ==
    call.op = "compute_eigentrust" =>
        /\ (eng.iteration >= 1 /\ DeltaLess(eng.status.delta, eng.epsilon))
              => /\ pc = "returned"
                 /\ eng.ret = [raised |-> "none", global_trust |-> eng.t_new,
                               iterations |-> eng.iteration, converged |-> TRUE]
                 /\ eng.status.delta =
                      check_convergence(eng.t, eng.t_new, eng.epsilon, eng.norm_type).delta
        /\ (EngineReturned /\ eng.ret.converged)
              => /\ eng.iteration >= 1
                 /\ ~DeltaGeq(eng.status.delta, eng.epsilon)

C5_ConvergedAfterFirstStep ==
    /\ EngineReturned
    /\ eng.ret.converged
    /\ eng.ret.iterations = 2
    /\ call.max_iterations = MaxSteps

\* a square non-negative matrix, a non-negative pre-trust of the same length
\* with a positive sum, alpha in [0, 1]
ValidEngineInput ==
    /\ IsSquare(call.trust_matrix)
    /\ ~HasNegative(call.trust_matrix)
    /\ Len(call.pre_trust) = Len(call.trust_matrix)
    /\ \A i \in 1..Len(call.pre_trust) : RLeq(Zero, call.pre_trust[i])
    /\ RLess(Zero, VSum(call.pre_trust))
    /\ RLeq(Zero, call.alpha) /\ RLeq(call.alpha, One)

\* C6: on a valid input (zero rows or columns and alpha = 0 included) the
\* vector compute_eigentrust returns has every entry >= 0 and sums to 1.0
\* within 1e-6, converged or not
C6_ReturnedVectorIsDistribution ==
    (EngineReturned /\ ValidEngineInput) =>
        /\ \A i \in 1..Len(eng.ret.global_trust) : RLeq(Zero, eng.ret.global_trust[i])
        /\ RLeq(RAbs(RSub(VSum(eng.ret.global_trust), One)), Rat(1, 1000000))

\* compute_eigentrust_with_history is past its validation
HistoryRunning ==
    /\ call.op = "compute_eigentrust_with_history"
    /\ pc \in {"hloop", "returned"}
    /\ eng.ret.raised \in {"pending", "none"}

\* the trust vector a snapshot's mapping by peer id stands for
SnapshotVector(snapshot, peer_ids) ==
    Tuple([i \in 1..Len(peer_ids) |-> snapshot.trust_scores[peer_ids[i]]])

\* C14: the history holds one snapshot for iteration 0 (the normalized
\* pre-trust, delta 1.0) and one after every update step, in order: a run
\* that reports m iterations has m+1 snapshots with indices 0..m, snapshot
\* k >= 1 carries the checker's delta between t_{k-1} and t_k, and the last
\* snapshot's scores are the returned vector
C14_HistoryOneSnapshotPerStep ==
    HistoryRunning =>
        LET history == eng.history
            vector(k) == SnapshotVector(history[k], call.peer_ids)
        IN  /\ Len(history) = eng.iteration + 1
            /\ \A k \in 1..Len(history) : history[k].iteration = k - 1
            /\ history[1].delta = Float(One)
            /\ vector(1) = NormalizePreTrust(call.pre_trust)
            /\ \A k \in 2..Len(history) :
                 history[k].delta = Norm(VSub(vector(k), vector(k - 1)), call.norm_type)
            /\ (pc = "returned") =>
                  /\ Len(history) = eng.ret.iterations + 1
                  /\ vector(Len(history)) = eng.ret.global_trust

C14_ThreeSnapshots ==
    /\ HistoryRunning
    /\ pc = "returned"
    /\ eng.ret.iterations = 2
    /\ eng.ret.converged
    /\ Len(eng.history) = 3
    /\ eng.history[3].delta # eng.history[2].delta

\* |new - old| summed over the entries of two vectors of the same length
\* (at most 2)
L1Distance(t_old, t_new) ==
    IF Len(t_old) = 1 THEN RAbs(RSub(t_new[1], t_old[1]))
    ELSE RAdd(RAbs(RSub(t_new[1], t_old[1])), RAbs(RSub(t_new[2], t_old[2])))

\* (new - old)^2 summed over the entries: the square of the L2 distance
L2DistanceSquared(t_old, t_new) ==
    IF Len(t_old) = 1 THEN RMul(RSub(t_new[1], t_old[1]), RSub(t_new[1], t_old[1]))
    ELSE RAdd(RMul(RSub(t_new[1], t_old[1]), RSub(t_new[1], t_old[1])),
              RMul(RSub(t_new[2], t_old[2]), RSub(t_new[2], t_old[2])))

\* C13: on vectors of equal length check_convergence returns delta = the
\* chosen norm (L1 by default) of new - old and converged = (delta < epsilon),
\* strictly: delta = epsilon is not converged, identical vectors give delta
\* 0; vectors of different length raise; the inputs are not modified
C13_DeltaIsNormAndStrictlyBelow ==
    [][(pc = "call" /\ call.op = "check_convergence") =>
          /\ call' = call
          /\ IF Len(call.t_old) # Len(call.t_new)
             THEN reply' = Raised("check_convergence", "ValueError")
             ELSE /\ reply'.kind = "returned"
                  /\ LET status == reply'.value[1]
                         l1 == L1Distance(call.t_old, call.t_new)
                         l2sq == L2DistanceSquared(call.t_old, call.t_new)
                     IN  /\ IF call.norm_type = "l2"
                            THEN /\ status.delta = [val |-> l2sq, root |-> 2]
                                 /\ status.converged
                                      = RLess(l2sq, RMul(call.epsilon, call.epsilon))
                            ELSE /\ status.delta = [val |-> l1, root |-> 1]
                                 /\ status.converged = RLess(l1, call.epsilon)
                         /\ call.t_old = call.t_new => status.delta.val = Zero]_vars

C13_DeltaEqualsEpsilon ==
    /\ pc = "returned"
    /\ call.op = "check_convergence"
    /\ reply.kind = "returned"
    /\ call.norm_type = "default"
    /\ Len(call.t_old) = 2
    /\ reply.value[1].delta = Float(call.epsilon)
    /\ reply.value[1].converged = FALSE

NormalizeReturned == pc = "returned" /\ call.op = "normalize_columns"

\* C11: for a non-negative matrix normalize_columns returns a matrix whose
\* entry (i, j) is the input entry divided by the input column sum and whose
\* column sums to 1.0 within 1e-6 where the input column sum was not zero,
\* and whose column is entirely zero where the input column was; a matrix
\* with a negative entry is rejected with an error and no result
C11_ColumnsNormalizedOrZero ==
    NormalizeReturned =>
        IF HasNegative(call.matrix)
        THEN reply = Raised("normalize_columns", "ValueError")
        ELSE /\ reply.kind = "returned"
             /\ LET m == call.matrix
                    out == reply.value[1]
                IN  /\ Len(out) = Len(m)
                    /\ \A j \in 1..NumCols(m) :
                         LET s == VSum(Column(m, j))
                         IN  IF s # Zero
                             THEN /\ \A i \in 1..Len(m) : out[i][j] = RDiv(m[i][j], s)
                                  /\ RLeq(RAbs(RSub(VSum(Column(out, j)), One)),
                                          Rat(1, 1000000))
                             ELSE \A i \in 1..Len(m) : out[i][j] = Zero

C11_MixedColumnsNormalized ==
    /\ NormalizeReturned
    /\ reply.kind = "returned"
    /\ call.calls = 0
    /\ NumCols(call.matrix) = 2
    /\ VSum(Column(call.matrix, 1)) = Zero
    /\ VSum(Column(call.matrix, 2)) = Rat(3, 1)

\* every column of m sums to 1.0
ColumnStochastic(m) == \A j \in 1..NumCols(m) : VSum(Column(m, j)) = One

\* C12: normalize_columns(normalize_columns(M)) equals normalize_columns(M),
\* and a matrix whose columns already sum to 1 is returned unchanged
C12_NormalizationIdempotent ==
    (NormalizeReturned /\ reply.kind = "returned") =>
        /\ call.calls = 1 => reply.value[1] = call.matrix
        /\ ColumnStochastic(call.matrix) => reply.value[1] = call.matrix

C12_NormalizedTwice ==
    /\ NormalizeReturned
    /\ reply.kind = "returned"
    /\ call.calls = 1
    /\ Len(call.matrix) = 2
    /\ call.matrix[1] = <<Rat(1, 3), Zero>>
    /\ call.matrix[2] = <<Rat(2, 3), Zero>>

-----------------------------------------------------------------------------
(* The properties of Simulation *)

DistinctIds(ps) == Cardinality(PeerIdsOf(ps)) = Len(ps)

\* every peer carries the score the returned TrustScores gives its id
ScoresWrittenBack(ps, trust_scores) ==
    \A i \in 1..Len(ps) : ps[i].global_trust = Some(trust_scores.scores[ps[i].peer_id])

\* a step in which run_algorithm hands control back to its caller
RunEnds == pc # "idle" /\ call.op = "run_algorithm" /\ pc' = "idle"

\* C1: with at least 2 peers (of distinct ids) and a valid log, run_algorithm
\* moves the state to RUNNING, ends in COMPLETED, returns a TrustScores and
\* leaves every peer's global_trust equal to the score returned for it
C1_RunEndsCompletedWithScores ==
    [][/\ (pc = "idle" /\ pc' = "build") => state' = "running"
       /\ (RunEnds /\ DistinctIds(peers))
             => /\ state' = "completed"
                /\ reply'.kind = "returned"
                /\ ScoresWrittenBack(peers', reply'.value[1])]_vars

\* no interaction was ever recorded and no peer was ever scored, so no
\* local trust was populated before this run
ColdStart ==
    /\ interactions = <<>>
    /\ DistinctIds(peers)
    /\ \A i \in 1..Len(peers) : peers[i].global_trust = NoneVal

\* |score - 1/N| <= 0.01 for every peer
UniformWithin001(scores, n) ==
    \A id \in DOMAIN scores : RLeq(RAbs(RSub(scores[id], Rat(1, n))), Rat(1, 100))

\* C2: cold start: with N >= 2 peers, no local trust and an empty log,
\* run_algorithm (given at least one iteration) returns a TrustScores with
\* converged = True and every score within 0.01 of 1/N
C2_ColdStartConvergesToUniform ==
    [][(RunEnds /\ pc = "returned" /\ ColdStart /\ call.max_iterations >= 1)
          => /\ reply'.kind = "returned"
             /\ reply'.value[1].converged
             /\ UniformWithin001(reply'.value[1].scores, Len(peers))]_vars

\* C7: when the engine uses up max_iterations without converging,
\* run_algorithm raises nothing, returns a TrustScores with converged = False
\* and iteration_count = max_iterations, sets every peer's global_trust and
\* ends in COMPLETED
C7_NonConvergenceIsAResult ==
    [][(RunEnds /\ pc = "returned" /\ eng.ret.raised = "none" /\ ~eng.ret.converged)
          => /\ state' = "completed"
             /\ reply'.kind = "returned"
             /\ reply'.value[1].converged = FALSE
             /\ reply'.value[1].iteration_count = call.max_iterations
             /\ ScoresWrittenBack(peers', reply'.value[1])
             /\ \A i \in 1..Len(peers') : peers'[i].global_trust # NoneVal]_vars

C7_CompletedWithoutConvergence ==
    /\ pc = "idle"
    /\ state = "completed"
    /\ reply.op = "run_algorithm"
    /\ reply.kind = "returned"
    /\ reply.value[1].converged = FALSE
    /\ reply.value[1].iteration_count >= 1
    /\ ScoresWrittenBack(peers, reply.value[1])

\* C8: run_algorithm and simulate_interactions with fewer than 2 peers, and
\* add_interaction with an id that is not a peer's, raise and leave the state,
\* the peers, the log and the history as they were; the state does not
\* become RUNNING
C8_StructuralErrorsMutateNothing ==
    [][/\ (pc = "idle" /\ Len(peers) < 2)
             => pc' = "idle" /\ state' = state /\ state' # "running"
       /\ (pc = "idle" /\ Len(peers) < 2
              /\ reply'.op \in {"run_algorithm", "simulate_interactions"})
             => /\ reply' = Raised(reply'.op, "InsufficientPeersError")
                /\ UNCHANGED simVars
       /\ (pc = "idle" /\ reply'.op = "add_interaction")
             => IF reply'.kind = "raised"
                THEN reply'.exc = "OrphanInteractionError" /\ UNCHANGED simVars
                ELSE /\ Len(interactions') = Len(interactions) + 1
                     /\ interactions'[Len(interactions')].source_peer_id \in PeerIdsOf(peers)
                     /\ interactions'[Len(interactions')].target_peer_id
                            \in PeerIdsOf(peers)]_vars

C8_RejectedWithOnePeer ==
    /\ pc = "idle"
    /\ Len(peers) = 1
    /\ state = "created"
    /\ reply = Raised("run_algorithm", "InsufficientPeersError")

\* what the TrustScores constructor raises for the engine's result, "none"
\* when it raises nothing
TrustScoresRaises ==
    LET peer_mapping == PeerMapping(peers)
        scores == Dict([id \in DOMAIN peer_mapping |->
                           eng.ret.global_trust[peer_mapping[id]]])
        final_delta == FinalDelta(UniformPreTrust(Len(peers)), eng.ret.global_trust,
                                  call.epsilon, eng.ret.iterations)
    IN  TrustScoresNew(scores, eng.ret.iterations, eng.ret.converged, call.epsilon,
                       final_delta, <<>>).raised

\* C9: when a step of run_algorithm after RUNNING raises, the state is FAILED
\* when control returns and the caller receives that exception; control
\* never returns with the state still RUNNING
C9_RaiseAfterRunningEndsFailed ==
    [][/\ pc' = "idle" => state' # "running"
       /\ (RunEnds /\ reply'.kind = "raised")
             => state' = "failed" /\ reply'.op = "run_algorithm"
       /\ (RunEnds /\ pc = "build"
              /\ BuildTrustMatrix(peers, interactions).tm.raised # "none")
             => /\ state' = "failed"
                /\ reply' = Raised("run_algorithm",
                                    BuildTrustMatrix(peers, interactions).tm.raised)
       /\ (pc = "returned" /\ call.op = "run_algorithm" /\ eng.ret.raised = "none"
              /\ TrustScoresRaises # "none")
             => /\ state' = "failed"
                /\ pc' = "idle"
                /\ reply' = Raised("run_algorithm", TrustScoresRaises)]_vars

C9_FailedByTrustScores ==
    /\ pc = "idle"
    /\ state = "failed"
    /\ DistinctIds(peers)
    /\ reply = Raised("run_algorithm", "ValueError")

BadShape ==
    \/ ~IsSquare(call.trust_matrix)
    \/ Len(call.pre_trust) # Len(call.trust_matrix)
    \/ /\ call.op = "compute_eigentrust_with_history"
       /\ Len(call.peer_ids) # Len(call.trust_matrix)

\* C16: both engine entry points validate before iterating: a non-square
\* matrix, a pre-trust of another length than the matrix dimension or (history
\* variant) a peer-id list of another length raises an error before any
\* update step is made and before any snapshot is recorded
C16_ShapeErrorsBeforeAnyStep ==
    (/\ call.op \in {"compute_eigentrust", "compute_eigentrust_with_history"}
     /\ BadShape
     /\ pc # "call")
       => /\ pc = "returned"
          /\ eng.ret = [NoReturn EXCEPT !.raised = "ValueError"]
          /\ eng.iteration = 0
          /\ eng.t_new = <<>>
          /\ eng.status = NoStatus
          /\ eng.history = <<>>

C16_PeerIdListTooLong ==
    /\ pc = "returned"
    /\ call.op = "compute_eigentrust_with_history"
    /\ IsSquare(call.trust_matrix)
    /\ Len(call.pre_trust) = Len(call.trust_matrix)
    /\ Len(call.peer_ids) > Len(call.trust_matrix)
    /\ call.max_iterations >= 1
    /\ eng.ret.raised = "ValueError"

\* some peer's local_trust names an id that is the id of no peer
UnknownPeerReference(ps) ==
    \E i \in 1..Len(ps) : DOMAIN ps[i].local_trust \ PeerIdsOf(ps) # {}

\* C17: the trust matrix builder never silently drops an unknown peer
\* reference: when a peer's local_trust names an id that is not a peer of the
\* Simulation, building the matrix (and hence run_algorithm) raises instead
\* of leaving the entry out
C17_UnknownReferenceRaises ==
    [][(pc = "build" /\ UnknownPeerReference(peers))
          => /\ pc' = "idle"
             /\ reply' = Raised("run_algorithm", "OrphanInteractionError")
             /\ state' = "failed"]_vars

\* C18: an Interaction is immutable once constructed: assigning one of its
\* fields raises and leaves the record unchanged, so the records of the log
\* never change after being appended
C18_InteractionsNeverMutated ==
    [][/\ reply'.op = "Interaction.__setattr__"
          => reply'.kind = "raised" /\ interactions' = interactions
       /\ \A k \in 1..Len(interactions) :
            Len(interactions') >= k /\ interactions'[k] = interactions[k]]_vars

SimulateCalled ==
    call.op = "simulate_interactions" /\ reply.op = "simulate_interactions"

\* the list returned holds exactly num_interactions records between two
\* different ids of the peer list
ReturnedRecordsValid ==
    /\ reply.kind = "returned"
    /\ Len(reply.value[1]) = call.num_interactions
    /\ \A k \in 1..Len(reply.value[1]) :
         /\ reply.value[1][k].source_peer_id \in PeerIdsOf(peers)
         /\ reply.value[1][k].target_peer_id \in PeerIdsOf(peers)
         /\ reply.value[1][k].source_peer_id # reply.value[1][k].target_peer_id
         /\ reply.value[1][k].outcome \in Outcomes

RaisedWithoutRecord == reply.kind = "raised" /\ reply.value = NoneVal

\* C19: for every peer list of size >= 2 and every count >= 0, in both
\* target-selection modes, simulate_interactions returns exactly count
\* records, each between two different ids of the peer list; with fewer than
\* 2 peers it raises and produces no record
C19_CountRecordsForTwoPeers ==
    SimulateCalled =>
        /\ Len(peers) >= 2 => ReturnedRecordsValid
        /\ Len(peers) < 2 => RaisedWithoutRecord

\* C19 as amended: for every peer list that holds at least two different
\* peer ids and every count >= 0, in both target-selection modes,
\* simulate_interactions returns exactly count records, each between two
\* different ids of the peer list; with fewer than 2 peers it raises
\* ValueError and produces no record; a list of 2 or more peers that all
\* share one id raises IndexError for count >= 1 and returns the empty list
\* for count 0
C19_CountRecordsForTwoPeerIds ==
    SimulateCalled =>
        /\ Cardinality(PeerIdsOf(peers)) >= 2 => ReturnedRecordsValid
        /\ Len(peers) < 2 => RaisedWithoutRecord /\ reply.exc = "ValueError"
        /\ (Len(peers) >= 2 /\ Cardinality(PeerIdsOf(peers)) = 1) =>
              IF call.num_interactions >= 1
              THEN RaisedWithoutRecord /\ reply.exc = "IndexError"
              ELSE reply = Returned("simulate_interactions", Some(<<>>))

C19_TwoRecordsPreferential ==
    /\ SimulateCalled
    /\ call.use_preferential_attachment
    /\ Len(peers) = 3
    /\ Cardinality(PeerIdsOf(peers)) = 2
    /\ reply.kind = "returned"
    /\ Len(reply.value[1]) = 2
    /\ reply.value[1][1].outcome = "success"
    /\ reply.value[1][2].target_peer_id = reply.value[1][1].target_peer_id

\* C20: two calls of simulate_interactions with the same peers, count, mode
\* and non-null seed produce identical sequences of (source, target,
\* outcome), whatever random draws were made before each call
C20_SameSeedSameSequence ==
    (pc = "done" /\ call.op = "simulate_interactions" /\ call.seed # NoneVal)
        => reply = call.interactions1

C20_SeededTwiceAfterOtherDraws ==
    /\ pc = "done"
    /\ call.op = "simulate_interactions"
    /\ call.seed # NoneVal
    /\ reply.kind = "returned"
    /\ Len(reply.value[1]) = MaxNumInteractions
    /\ reply.value[1][1].outcome # reply.value[1][2].outcome

\* the step is a call of the TrustMatrix method op
MatrixCallStep(op) == call'.op = op /\ call'.calls = call.calls + 1

ZeroColumn(m, j) == \A i \in 1..Len(m) : m[i][j] = Zero

\* C21: TrustMatrix.normalize_columns returns, for every TrustMatrix (one
\* with an all-zero column included), a new TrustMatrix flagged normalized
\* whose originally all-zero columns are still all-zero and whose other
\* columns sum to 1; it leaves the receiver unchanged, and its matrix is the
\* one the normalize_columns function computes
C21_MethodKeepsZeroColumns ==
    [][MatrixCallStep("TrustMatrix.normalize_columns")
          => /\ call'.self = call.self
             /\ reply'.kind = "returned"
             /\ LET before == call.self[1].matrix
                    result == reply'.value[1]
                IN  /\ result.normalized
                    /\ result.matrix = normalize_columns(before).matrix
                    /\ \A j \in 1..Len(before) :
                         IF ZeroColumn(before, j) THEN ZeroColumn(result.matrix, j)
                         ELSE AllClose(VSum(Column(result.matrix, j)), One)]_vars

\* the interactions of the log whose source is id, and among them those with target tg
InteractionsOf(log, id) == {k \in 1..Len(log) : log[k].source_peer_id = id}

SuccessRate(log, id, tg) ==
    LET with == {k \in InteractionsOf(log, id) : log[k].target_peer_id = tg}
    IN  Rat(Cardinality({k \in with : log[k].outcome = "success"}), Cardinality(with))

RECURSIVE SumOfRates(_, _, _)
SumOfRates(log, id, targets) ==
    IF targets = {} THEN Zero
    ELSE LET tg == CHOOSE x \in targets : TRUE
         IN  RAdd(SumOfRates(log, id, targets \ {tg}), SuccessRate(log, id, tg))

\* entry (i, j) as the derivation rule gives it
DerivedEntry(ps, log, i, j) ==
    LET id == ps[i].peer_id
        targets == {log[k].target_peer_id : k \in InteractionsOf(log, id)}
        total == SumOfRates(log, id, targets)
    IN  IF targets = {} THEN (IF j = i THEN Zero ELSE Rat(1, Len(ps) - 1))
        ELSE IF ps[j].peer_id \notin targets THEN Zero
        ELSE IF total = Zero THEN Rat(1, Cardinality(targets))
        ELSE RDiv(SuccessRate(log, id, ps[j].peer_id), total)

\* C22: for a peer i without pre-populated local trust, row i of the built
\* matrix is the distribution derived from the log (normalized success rates
\* over the targets of i; uniform over those targets when every rate is zero;
\* 1/(N-1) for every other peer when i is the source of no interaction): it
\* sums to 1, its diagonal entry is 0 and it is never entirely zero
C22_RowIsDerivedDistribution ==
    [][(pc = "call" /\ call.op = "_build_trust_matrix" /\ reply'.kind = "returned")
          => \A i \in 1..Len(peers) :
                DOMAIN peers[i].local_trust = {} =>
                   LET row == reply'.value[1].matrix[i]
                   IN  /\ \A j \in 1..Len(peers) :
                            row[j] = DerivedEntry(peers, interactions, i, j)
                       /\ AllClose(VSum(row), One)
                       /\ row[i] = Zero
                       /\ \E j \in 1..Len(peers) : row[j] # Zero]_vars

C22_TwoTargetsWithDifferentRates ==
    /\ pc = "returned"
    /\ call.op = "_build_trust_matrix"
    /\ reply.kind = "returned"
    /\ Len(interactions) = 3
    /\ reply.value[1].matrix[1] = <<Zero, Rat(1, 3), Rat(2, 3)>>
    /\ reply.value[1].matrix[2] = <<Rat(1, 2), Zero, Rat(1, 2)>>

\* the SUCCESS interactions so far whose target has this id
SuccessesWithTarget(log, id) ==
    Cardinality({k \in 1..Len(log) :
                    log[k].target_peer_id = id /\ log[k].outcome = "success"})

\* C23: in preferential-attachment mode, after any number of passes of one
\* call, each peer's running count is 1 plus the number of SUCCESS
\* interactions so far whose target was that peer (so a FAILURE changes no
\* count and a SUCCESS only the target's, by 1); every count stays >= 1, every
\* candidate other than the source has a non-zero weight and the source is
\* never the target
C23_CountsAreOnePlusSuccesses ==
    (/\ call.op = "simulate_interactions"
     /\ call.use_preferential_attachment
     /\ pc \in {"sloop", "returned"}
     /\ eng.peer_success_counts # <<>>)
       => /\ DOMAIN eng.peer_success_counts = PeerIdsOf(peers)
          /\ \A id \in PeerIdsOf(peers) :
               /\ eng.peer_success_counts[id]
                    = 1 + SuccessesWithTarget(eng.interactions, id)
               /\ eng.peer_success_counts[id] >= 1
          /\ \A k \in 1..Len(eng.available_targets) :
               eng.peer_success_counts[eng.available_targets[k].peer_id] >= 1
          /\ eng.raised = "pending" =>
               \A k \in 1..Len(eng.interactions) :
                  /\ eng.interactions[k].source_peer_id # eng.interactions[k].target_peer_id
                  /\ Len(eng.interactions) = k =>
                        \A c \in 1..Len(eng.available_targets) :
                           eng.available_targets[c].peer_id
                             # eng.interactions[k].source_peer_id

C23_CountRaisedTwice ==
    /\ call.op = "simulate_interactions"
    /\ call.use_preferential_attachment
    /\ pc = "returned"
    /\ reply.kind = "returned"
    /\ \E id \in PeerIdsOf(peers) : eng.peer_success_counts[id] = 3
    /\ \E id \in PeerIdsOf(peers) : eng.peer_success_counts[id] = 1

AllowedTransitions ==
    {<<"created", "running">>, <<"completed", "running">>,
     <<"running", "completed">>, <<"running", "failed">>}

\* C10: the only state transitions are CREATED -> RUNNING, COMPLETED ->
\* RUNNING, RUNNING -> COMPLETED and RUNNING -> FAILED; a Simulation in
\* state FAILED is not moved to any other state
C10_OnlyLifecycleTransitions ==
    [][state' # state => <<state, state'>> \in AllowedTransitions]_vars

-----------------------------------------------------------------------------

(* Simulation._build_trust_matrix on peers added by add_peer and a log
   appended by add_interaction *)

AddedPeerIds == {<<"a", "b">>, <<"a", "b", "c">>, <<"a", "a", "b">>}

LogLengths == {0, 1, 2, 3}

\* the interactions add_interaction accepts: both ids are ids of peers
LoggedInteractions(ids) ==
    {Interaction(ids[i], ids[j], o) :
        <<i, j, o>> \in {y \in (1..Len(ids)) \X (1..Len(ids)) \X Outcomes :
                            ids[y[1]] # ids[y[2]]}}

\* peers without local trust and a log
InitBuild ==
    /\ state = "created"
    /\ \E ids \in AddedPeerIds :
         /\ peers = Tuple([i \in 1..Len(ids) |->
                              PeerNew(Rat(1, 2), Rat(1, 2), ids[i]).obj[1]])
         /\ \E n \in LogLengths : interactions \in [1..n -> LoggedInteractions(ids)]
    /\ convergence_history = <<>>
    /\ pc = "call"
    /\ call = [op |-> "_build_trust_matrix"]
    /\ eng = NoEngine
    /\ reply = NoOutcome

\* self._build_trust_matrix()
BuildMatrix ==
    /\ pc = "call"
    /\ call.op = "_build_trust_matrix"
    /\ LET built == BuildTrustMatrix(peers, interactions)
       IN  /\ peers' = built.peers
           /\ reply' = IF built.tm.raised # "none"
                       THEN Raised("_build_trust_matrix", built.tm.raised)
                       ELSE Returned("_build_trust_matrix", built.tm.obj)
    /\ pc' = "returned"
    /\ UNCHANGED <<state, interactions, convergence_history, call, eng>>

NextBuild == BuildMatrix

SpecBuild == InitBuild /\ [][NextBuild]_vars

-----------------------------------------------------------------------------
(* a Peer whose update_local_trust is called again and again *)

MaxUpdates == 4

PartnerIds == {"b", "c", "d"}

\* Peer(0.5, 0.5, "a")
InitPeer ==
    /\ state = "created"
    /\ peers = <<PeerNew(Rat(1, 2), Rat(1, 2), "a").obj[1]>>
    /\ interactions = <<>>
    /\ convergence_history = <<>>
    /\ pc = "idle"
    /\ call = [op |-> "Peer", calls |-> 0]
    /\ eng = NoEngine
    /\ reply = NoOutcome

\* peer.update_local_trust(partner_id, interaction_success)
UpdateLocalTrust ==
    /\ pc = "idle"
    /\ call.calls < MaxUpdates
    /\ \E partner_id \in PartnerIds, interaction_success \in BOOLEAN :
         /\ peers' = [peers EXCEPT ![1].local_trust =
                         update_local_trust(@, partner_id, interaction_success)]
         /\ call' = [op |-> "update_local_trust", calls |-> call.calls + 1,
                     partner_id |-> partner_id,
                     interaction_success |-> interaction_success]
    /\ reply' = Returned("update_local_trust", NoneVal)
    /\ UNCHANGED <<state, interactions, convergence_history, pc, eng>>

NextPeer == UpdateLocalTrust

SpecPeer == InitPeer /\ [][NextPeer]_vars

-----------------------------------------------------------------------------
(* domain/trust_matrix.py: TrustMatrix, constructed and then used *)

MaxMatrixCalls == 2

\* TrustMatrix(matrix, peer_mapping, normalized); indices count from 1 here
TrustMatrixInit(matrix, peer_mapping, normalized) ==
    IF ~IsSquare(matrix) THEN [raised |-> "ValueError", obj |-> NoneVal]
    ELSE IF HasNegative(matrix) THEN [raised |-> "ValueError", obj |-> NoneVal]
    ELSE IF Cardinality(DOMAIN peer_mapping) # Len(matrix)
    THEN [raised |-> "ValueError", obj |-> NoneVal]
    ELSE [raised |-> "none",
          obj |-> Some([matrix |-> matrix, peer_mapping |-> peer_mapping,
                        normalized |-> normalized])]

\* TrustMatrix.set_trust: the exception raised and the receiver afterwards
set_trust(self, truster_id, trustee_id, value) ==
    IF RLess(value, Zero) \/ RLess(One, value)
    THEN [raised |-> "ValueError", self |-> self]
    ELSE IF truster_id \notin DOMAIN self.peer_mapping
            \/ trustee_id \notin DOMAIN self.peer_mapping
    THEN [raised |-> "KeyError", self |-> self]
    ELSE LET i == self.peer_mapping[truster_id]
             j == self.peer_mapping[trustee_id]
         IN  IF i \notin 1..Len(self.matrix) \/ j \notin 1..Len(self.matrix)
             THEN [raised |-> "IndexError", self |-> self]
             ELSE [raised |-> "none",
                   self |-> [self EXCEPT !.matrix[i][j] = value, !.normalized = FALSE]]

\* the check "column sums should be 1.0" of TrustMatrix.normalize_columns
VerificationFails(normalized_matrix) ==
    \E j \in 1..NumCols(normalized_matrix) :
        ~AllClose(VSum(Column(normalized_matrix, j)), One)

\* TrustMatrix.normalize_columns: the exception raised or the new TrustMatrix
TrustMatrixNormalizeColumns(self) ==
    LET col_sums == ColumnSums(self.matrix)
        normalized_matrix == DivideColumns(self.matrix, col_sums)
    IN  IF VerificationFails(normalized_matrix)
        THEN [raised |-> "ValueError", obj |-> NoneVal]
        ELSE TrustMatrixInit(normalized_matrix, self.peer_mapping, TRUE)

MatrixShapes == {1, 2}

MatrixValues == {Rat(-1, 1), Zero, One}

MappingIndices == {1, 2, 3}

PeerMappings == UNION {[ids -> MappingIndices] : ids \in SUBSET {"a", "b"}}

TrustValues == {Rat(-1, 2), Rat(1, 2), Rat(3, 2), NaN}

TrustIds == {"a", "b", "x"}

InitMatrix ==
    /\ state = "created"
    /\ peers = <<>>
    /\ interactions = <<>>
    /\ convergence_history = <<>>
    /\ pc = "construct"
    /\ \E rows \in MatrixShapes, cols \in MatrixShapes :
         \E m \in [1..rows -> [1..cols -> MatrixValues]], pm \in PeerMappings,
            normalized \in BOOLEAN :
              call = [op |-> "TrustMatrix", self |-> NoneVal, calls |-> 0,
                      args |-> [matrix |-> m, peer_mapping |-> Dict(pm),
                                normalized |-> normalized]]
    /\ eng = NoEngine
    /\ reply = NoOutcome

\* tm = TrustMatrix(matrix, peer_mapping, normalized)
ConstructTrustMatrix ==
    /\ pc = "construct"
    /\ LET made == TrustMatrixInit(call.args.matrix, call.args.peer_mapping,
                                   call.args.normalized)
       IN  IF made.raised # "none"
           THEN /\ reply' = Raised("TrustMatrix", made.raised)
                /\ pc' = "rejected"
                /\ UNCHANGED call
           ELSE /\ reply' = Returned("TrustMatrix", made.obj)
                /\ pc' = "ready"
                /\ call' = [call EXCEPT !.self = made.obj]
    /\ UNCHANGED <<simVars, eng>>

\* tm.set_trust(truster_id, trustee_id, value)
SetTrust ==
    /\ pc = "ready"
    /\ call.calls < MaxMatrixCalls
    /\ \E truster_id \in TrustIds, trustee_id \in TrustIds, value \in TrustValues :
         LET done == set_trust(call.self[1], truster_id, trustee_id, value)
         IN  /\ call' = [op |-> "set_trust", self |-> Some(done.self),
                         calls |-> call.calls + 1,
                         args |-> [truster_id |-> truster_id, trustee_id |-> trustee_id,
                                   value |-> value]]
             /\ reply' = IF done.raised # "none" THEN Raised("set_trust", done.raised)
                         ELSE Returned("set_trust", NoneVal)
    /\ UNCHANGED <<simVars, pc, eng>>

\* tm.normalize_columns()
NormalizeMethod ==
    /\ pc = "ready"
    /\ call.calls < MaxMatrixCalls
    /\ LET made == TrustMatrixNormalizeColumns(call.self[1])
       IN  /\ call' = [op |-> "TrustMatrix.normalize_columns", self |-> call.self,
                       calls |-> call.calls + 1, args |-> <<>>]
           /\ reply' = IF made.raised # "none"
                       THEN Raised("TrustMatrix.normalize_columns", made.raised)
                       ELSE Returned("TrustMatrix.normalize_columns", made.obj)
    /\ UNCHANGED <<simVars, pc, eng>>

\* tm = tm.normalize_columns(): the caller goes on with the matrix returned
AdoptNormalized ==
    /\ pc = "ready"
    /\ reply.op = "TrustMatrix.normalize_columns"
    /\ reply.kind = "returned"
    /\ call' = [call EXCEPT !.self = reply.value]
    /\ UNCHANGED <<simVars, pc, eng, reply>>

NextMatrix == ConstructTrustMatrix \/ SetTrust \/ NormalizeMethod \/ AdoptNormalized

SpecMatrix == InitMatrix /\ [][NextMatrix]_vars

-----------------------------------------------------------------------------
(* the interaction log and the records a caller still holds *)

InteractionFields == {"source_peer_id", "target_peer_id", "outcome"}

FieldValues(field) == IF field = "outcome" THEN Outcomes ELSE PeerIds

\* interaction.<field> = value on a record of the log: Interaction defines
\* neither __setattr__ nor __slots__, so the attribute is rebound
SetInteractionField ==
    /\ pc = "idle"
    /\ \E k \in 1..Len(interactions), field \in InteractionFields :
         \E value \in FieldValues(field) :
            interactions' = [interactions EXCEPT ![k][field] = value]
    /\ reply' = Returned("Interaction.__setattr__", NoneVal)
    /\ UNCHANGED <<state, peers, convergence_history, pc, call, eng>>

NextLog == AddPeer \/ AddInteraction \/ SetInteractionField

SpecLog == Init /\ [][NextLog]_vars

-----------------------------------------------------------------------------
(* a Simulation restored by Simulation.from_dict and then run *)

\* the ids a stored local_trust mapping may name; "x" is the id of no peer
StoredTrustIds == {"a", "b", "x"}

StoredTrustValues == {Rat(1, 2)}

StoredLocalTrust ==
    UNION {[ids -> StoredTrustValues] : ids \in SUBSET StoredTrustIds}

\* Simulation.from_dict(data): peers "a" and "b" with the local_trust stored
\* for them, no interactions, no history
InitRestored ==
    /\ state = "created"
    /\ \E lt_a \in StoredLocalTrust, lt_b \in StoredLocalTrust :
         peers = <<[peer_id |-> "a", competence |-> Rat(1, 2), maliciousness |-> Rat(1, 2),
                    global_trust |-> NoneVal, local_trust |-> Dict(lt_a)],
                   [peer_id |-> "b", competence |-> Rat(1, 2), maliciousness |-> Rat(1, 2),
                    global_trust |-> NoneVal, local_trust |-> Dict(lt_b)]>>
    /\ interactions = <<>>
    /\ convergence_history = <<>>
    /\ pc = "idle"
    /\ call = NoCall
    /\ eng = NoEngine
    /\ reply = NoOutcome

NextRestored ==
    \/ RunAlgorithm
    \/ RunBuild
    \/ EngineIterate
    \/ EngineExhaust
    \/ HistoryIterate
    \/ HistoryExhaust
    \/ RunFinish

SpecRestored == InitRestored /\ [][NextRestored]_vars

-----------------------------------------------------------------------------
(* Properties of Peer and TrustMatrix *)

\* C24: after every call of Peer.update_local_trust, from an empty mapping
\* and for any sequence of partners and outcomes, every value of local_trust
\* is in [0, 1] and the values sum to 1 (within tolerance); the sum before
\* the renormalization is never zero, so the renormalization always applies
C24_LocalTrustStaysNormalized ==
    [][(call'.op = "update_local_trust" /\ call'.calls = call.calls + 1)
          => LET local_trust == peers'[1].local_trust
                 before == ClampedLocalTrust(peers[1].local_trust, call'.partner_id,
                                             call'.interaction_success)
             IN  /\ call'.partner_id \in DOMAIN local_trust
                 /\ \A k \in DOMAIN local_trust : InUnit(local_trust[k])
                 /\ AllClose(SumValues(local_trust), One)
                 /\ RLess(Zero, SumValues(before))]_vars

C24_ThreePartnersAfterFailure ==
    /\ call.op = "update_local_trust"
    /\ call.calls = MaxUpdates
    /\ ~call.interaction_success
    /\ DOMAIN peers[1].local_trust = PartnerIds
    /\ RLess(peers[1].local_trust[call.partner_id], Rat(1, 4))

\* the value is a number of [0, 1]
ValidTrustValue(value) == RLeq(Zero, value) /\ RLeq(value, One)

\* C25: TrustMatrix.set_trust with a value outside [0, 1] or an unknown peer
\* id raises and leaves the matrix and the normalized flag unchanged; with a
\* valid value and known ids it changes only entry (truster, trustee) to that
\* value, leaves every other entry and the peer mapping unchanged and sets
\* the normalized flag to false
C25_SetTrustChangesOneEntry ==
    [][MatrixCallStep("set_trust")
          => LET before == call.self[1]
                 after == call'.self[1]
                 args == call'.args
                 known == {args.truster_id, args.trustee_id} \subseteq DOMAIN before.peer_mapping
             IN  IF ~ValidTrustValue(args.value) \/ ~known
                 THEN reply'.kind = "raised" /\ after = before
                 ELSE /\ reply' = Returned("set_trust", NoneVal)
                      /\ after.peer_mapping = before.peer_mapping
                      /\ after.normalized = FALSE
                      /\ Len(after.matrix) = Len(before.matrix)
                      /\ \A i \in 1..Len(before.matrix), j \in 1..Len(before.matrix) :
                           after.matrix[i][j] =
                              IF /\ i = before.peer_mapping[args.truster_id]
                                 /\ j = before.peer_mapping[args.trustee_id]
                              THEN args.value ELSE before.matrix[i][j]]_vars

\* the mapping is a bijection from its ids onto the indices of the matrix
\* (1..N here)
Bijective(peer_mapping, n) ==
    /\ \A id \in DOMAIN peer_mapping : peer_mapping[id] \in 1..n
    /\ \A i \in 1..n : Cardinality({id \in DOMAIN peer_mapping : peer_mapping[id] = i}) = 1

WellFormed(matrix, peer_mapping) ==
    /\ IsSquare(matrix)
    /\ ~HasNegative(matrix)
    /\ Bijective(peer_mapping, Len(matrix))

\* C26: every TrustMatrix that exists, after construction and after any
\* sequence of set_trust and normalize_columns calls, holds a square matrix
\* without negative entry and a peer mapping that is a bijection from its ids
\* onto the indices of the matrix; a construction that would violate any of
\* these is rejected
C26_TrustMatrixWellFormed ==
    /\ (call.op \in {"TrustMatrix", "set_trust", "TrustMatrix.normalize_columns"}
          /\ call.self # NoneVal)
          => WellFormed(call.self[1].matrix, call.self[1].peer_mapping)
    /\ (reply.op = "TrustMatrix.normalize_columns" /\ reply.kind = "returned")
          => WellFormed(reply.value[1].matrix, reply.value[1].peer_mapping)
    /\ (reply.op = "TrustMatrix"
          /\ ~WellFormed(call.args.matrix, call.args.peer_mapping))
          => reply.kind = "raised" /\ call.self = NoneVal

-----------------------------------------------------------------------------
(* Properties of run_algorithm's result and frame *)

\* C27: the final_delta of the TrustScores returned by run_algorithm is the
\* change of the last iteration: the convergence checker's delta between the
\* last two trust vectors of the engine run, for every iteration count >= 1
C27_FinalDeltaIsLastStepDelta ==
    [][(RunEnds /\ reply'.kind = "returned" /\ reply'.value[1].iteration_count >= 1)
          => reply'.value[1].final_delta = eng.status.delta]_vars

\* C28: run_algorithm changes only the Simulation's state, its convergence
\* history and the peers' global_trust: every step of it leaves the
\* interaction log and every peer's local_trust, competence and
\* maliciousness unchanged
C28_RunLeavesLocalTrustAndLog ==
    [][(call.op = "run_algorithm" /\ pc # "idle")
          => /\ interactions' = interactions
             /\ Len(peers') = Len(peers)
             /\ \A i \in 1..Len(peers) :
                  /\ peers'[i].peer_id = peers[i].peer_id
                  /\ peers'[i].local_trust = peers[i].local_trust
                  /\ peers'[i].competence = peers[i].competence
                  /\ peers'[i].maliciousness = peers[i].maliciousness]_vars

\* C29: a failed run publishes no result: no step of a run_algorithm call
\* that ends in state FAILED changes a peer's global_trust or the
\* Simulation's convergence history (the step that ends the call is the only
\* one that writes either)
C29_FailedRunPublishesNothing ==
    [][/\ (call.op = "run_algorithm" /\ pc # "idle" /\ ~RunEnds)
          => /\ convergence_history' = convergence_history
             /\ \A i \in 1..Len(peers) : peers'[i].global_trust = peers[i].global_trust
       /\ (RunEnds /\ state' = "failed")
          => /\ convergence_history' = convergence_history
             /\ \A i \in 1..Len(peers) : peers'[i].global_trust = peers[i].global_trust]_vars

\* C30: history tracking does not change the computation: when
\* compute_eigentrust_with_history has ended, called with one peer id per
\* matrix row, its trust vector, iteration count and converged flag (or the
\* error it raised) are those of compute_eigentrust on the same matrix,
\* pre-trust vector, max_iterations, epsilon, norm type and alpha
C30_HistoryVariantComputesTheSame ==
    (/\ call.op = "compute_eigentrust_with_history"
     /\ pc = "returned"
     /\ Len(call.peer_ids) = Len(call.trust_matrix))
        => eng.ret = compute_eigentrust(call.trust_matrix, call.pre_trust,
                                        call.max_iterations, call.epsilon,
                                        call.norm_type, call.alpha)

\* a tracked call whose pre-trust had to be normalized made two iterations
\* and converged
C30_TrackedCallConvergedInTwo ==
    /\ call.op = "compute_eigentrust_with_history"
    /\ pc = "returned"
    /\ eng.ret.raised = "none"
    /\ eng.ret.converged
    /\ eng.ret.iterations = 2
    /\ VSum(call.pre_trust) # One
    /\ Len(eng.history) = 3

-----------------------------------------------------------------------------

Next ==
    \/ AddPeer
    \/ AddInteraction
    \/ SimulateInteractions
    \/ RunAlgorithm
    \/ RunBuild
    \/ EngineIterate
    \/ EngineExhaust
    \/ HistoryIterate
    \/ HistoryExhaust
    \/ RunFinish

Spec == Init /\ [][Next]_vars

====
